---- MODULE Spec2Model ----
(***************************************************************************)
(* Transform stage of the e-commerce reporting ETL: the per-entity data    *)
(* cleaners (InventoryCleaner, ReviewsCleaner), the enrichers              *)
(* (OrdersEnricher, ReviewsEnricher) and the orchestration that calls      *)
(* them, modelled over bounded tabular datasets.                           *)
(*                                                                         *)
(* A table is [cols |-> set of column names, rows |-> sequence of rows],   *)
(* a row a function from the table's columns to cells.  A cell is a        *)
(* record [k, v]: k = "null" (None/NaN/NaT), "num" (a number v), "str" (a  *)
(* string that parses to the number or date v), "bad" (a string that does  *)
(* not parse), "ts" (a timestamp v, month * 100 + day), "txt" (a text of v *)
(* characters), "bool" (v = 1 true, 0 false), "month" and "week" (a        *)
(* calendar period), "ratio" (the quotient v[1] / v[2]).                   *)
(***************************************************************************)
EXTENDS Integers, Sequences, FiniteSets, TLC

\* ------------------------------------------------------------ bounds
\* Largest number of rows of a raw primary table.
MaxRows == 2
\* Largest number of cells of a raw table that differ from a well-formed row.
MaxEdits == 2
\* Largest number of rows of a reference catalog.
MaxCatalogRows == 2
\* Largest number of rows of an enriched table given to the aggregators.
MaxAggRows == 3
\* Largest number of aggregator calls made on one enriched table.
MaxAggCalls == 2
\* Largest min_reviews and largest top_n passed to rating_by_product.
MaxMinReviews == 2
MaxTopN == 2
\* Largest number of ETLError objects constructed.
MaxErrors == 2
MaxExtracts == 2

\* ------------------------------------------------------------- cells
Null == [k |-> "null", v |-> 0]
Bad == [k |-> "bad", v |-> 0]
Num(n) == [k |-> "num", v |-> n]
Str(n) == [k |-> "str", v |-> n]
Ts(d) == [k |-> "ts", v |-> d]
Txt(n) == [k |-> "txt", v |-> n]
Bool(b) == [k |-> "bool", v |-> IF b THEN 1 ELSE 0]
Ratio(n, d) == [k |-> "ratio", v |-> <<n, d>>]

\* pandas isna(): None, NaN and NaT; a string is never NA.
IsNa(c) == c.k = "null"

\* A to_datetime that parses strings only: a value that already is a
\* timestamp is not recognised and coerced to NaT.
ToDatetime_StringsOnly(c) ==
  IF c.k = "str" THEN Ts(c.v) ELSE Null

\* pd.to_datetime(x, errors="coerce") on one value.
ToDatetime(c) ==
  CASE c.k = "ts" -> c
    [] c.k = "str" -> Ts(c.v)
    [] OTHER -> Null

\* pd.to_numeric(x, errors="coerce") on one value.
ToNumeric(c) ==
  CASE c.k = "num" -> c
    [] c.k = "str" -> Num(c.v)
    [] OTHER -> Null

\* ------------------------------------------------------------ tables
RowIdx(t) == 1..Len(t.rows)

HasNull(t, c) == \E i \in RowIdx(t) : IsNa(t.rows[i][c])

\* df[c] = f(df[c])
MapCol(t, c, f(_)) ==
  [t EXCEPT !.rows = [i \in RowIdx(t) |-> [t.rows[i] EXCEPT ![c] = f(@)]]]

RECURSIVE Pick(_, _, _)
\* The rows of s whose index is in K, from index i on, in their order.
Pick(s, K, i) ==
  IF i > Len(s) THEN <<>>
  ELSE (IF i \in K THEN <<s[i]>> ELSE <<>>) \o Pick(s, K, i + 1)

\* df.drop_duplicates(subset=[c], keep="first")
DropDuplicates_KeepFirst(t, c) ==
  [t EXCEPT !.rows =
     Pick(t.rows,
          {i \in RowIdx(t) : ~\E j \in RowIdx(t) : j < i /\ t.rows[j][c] = t.rows[i][c]},
          1)]

\* df.drop_duplicates(subset=[c], keep="last"); NaN keys compare equal.
DropDuplicates(t, c) ==
  [t EXCEPT !.rows =
     Pick(t.rows,
          {i \in RowIdx(t) : ~\E j \in RowIdx(t) : j > i /\ t.rows[j][c] = t.rows[i][c]},
          1)]

\* ------------------------------------------------------------ errors
NoError == [type |-> "none", cols |-> {}]
Error(type, cols) == [type |-> type, cols |-> cols]
Ok(t) == [df |-> t, err |-> NoError]
Raise(t, e) == [df |-> t, err |-> e]
Raised(r) == r.err.type # "none"

\* --------------------------------------------------- SchemaValidator
\* validate_required_columns(names): every missing name is listed.
ValidateRequiredColumns(t, names) ==
  IF names \subseteq t.cols THEN NoError
  ELSE Error("MissingRequiredColumnsError", names \ t.cols)

\* validate_no_nulls(columns): every offending column is named.
ValidateNoNulls(t, columns) ==
  LET bad == {c \in columns : HasNull(t, c)}
  IN IF bad = {} THEN NoError ELSE Error("NullConstraintError", bad)

\* Rows of column c out of range.  lo and hi are sets: {m} is the bound m,
\* {} is None (no bound).  A NaN compares false with any bound: in range.
OutOfRange(t, c, lo, hi) ==
  {i \in RowIdx(t) :
     /\ t.rows[i][c].k = "num"
     /\ \/ \E m \in lo : t.rows[i][c].v < m
        \/ \E m \in hi : t.rows[i][c].v > m}

\* validate_numeric_range(column, min_value, max_value)
ValidateNumericRange(t, c, lo, hi) ==
  IF OutOfRange(t, c, lo, hi) = {} THEN NoError
  ELSE Error("RangeValidationError", {c})

\* validate_unique_values(columns=[c])
ValidateUniqueValues(t, c) ==
  IF \E i, j \in RowIdx(t) : i < j /\ t.rows[i][c] = t.rows[j][c]
  THEN Error("DuplicateKeyError", {c})
  ELSE NoError

RECURSIVE FirstError(_)
\* The checks of a validation run in order; the first that fails raises.
FirstError(es) ==
  IF es = <<>> THEN NoError
  ELSE IF Head(es).type # "none" THEN Head(es) ELSE FirstError(Tail(es))

\* ------------------------------------------------------- DataCleaner
\* A _fill_column that leaves the nulls in place.
FillColumn_Nothing(t, c) == t

\* _fill_column(df, col, NullStrategy.FILL_ZERO)
FillColumn(t, c) == MapCol(t, c, LAMBDA x : IF IsNa(x) THEN Num(0) ELSE x)

\* ---------------------------------------------------- InventoryCleaner
InventoryColumns ==
  {"inventory_id", "product_id", "warehouse_id", "quantity",
   "min_stock_level", "max_stock_level", "last_restock_date"}
InventoryRequiredColumns ==
  {"inventory_id", "product_id", "warehouse_id", "quantity",
   "min_stock_level", "max_stock_level"}
InventoryNumericColumns == <<"quantity", "min_stock_level", "max_stock_level">>
InventoryDateColumns == <<"last_restock_date">>

\* handle_nulls that does not check the primary key.
InventoryHandleNulls_NoKeyCheck(df) ==
  LET e == ValidateNoNulls(df, {"product_id", "warehouse_id"})
  IN IF e.type # "none" THEN Raise(df, e)
     ELSE Ok(FillColumn(FillColumn(FillColumn(df, "quantity"),
                                   "min_stock_level"), "max_stock_level"))

\* handle_nulls that drops the rows with a null key instead of raising.
InventoryHandleNulls_DropNa(df) ==
  LET keys == {"inventory_id", "product_id", "warehouse_id"}
      kept == [df EXCEPT !.rows =
                 Pick(df.rows,
                      {i \in RowIdx(df) : \A c \in keys : ~IsNa(df.rows[i][c])}, 1)]
  IN Ok(FillColumn(FillColumn(FillColumn(kept, "quantity"),
                              "min_stock_level"), "max_stock_level"))

InventoryHandleNulls(df) ==
  LET e == ValidateNoNulls(df, {"inventory_id", "product_id", "warehouse_id"})
  IN IF e.type # "none" THEN Raise(df, e)
     ELSE Ok(FillColumn(FillColumn(FillColumn(df, "quantity"),
                                   "min_stock_level"), "max_stock_level"))

InventoryHandleDuplicates_KeepFirst(df) ==
  Ok(DropDuplicates_KeepFirst(df, "inventory_id"))

InventoryHandleDuplicates(df) == Ok(DropDuplicates(df, "inventory_id"))

RECURSIVE ConvertColumns(_, _, _, _)
\* for col in cols: df[col] = convert(df[col]); with guarded, a column the
\* table lacks is skipped; without, df[col] raises KeyError.
ConvertColumns(df, cols, kind, guarded) ==
  IF cols = <<>> THEN Ok(df)
  ELSE IF Head(cols) \notin df.cols
       THEN IF guarded THEN ConvertColumns(df, Tail(cols), kind, guarded)
            ELSE Raise(df, Error("KeyError", {Head(cols)}))
       ELSE ConvertColumns(
              IF kind = "numeric" THEN MapCol(df, Head(cols), ToNumeric)
              ELSE MapCol(df, Head(cols), ToDatetime),
              Tail(cols), kind, guarded)

InventoryConvertTypes(df) ==
  LET n == ConvertColumns(df, InventoryNumericColumns, "numeric", FALSE)
  IN IF Raised(n) THEN n
     ELSE ConvertColumns(n.df, InventoryDateColumns, "date", FALSE)

\* validate_cleaned_data that forgets the range check of max_stock_level.
InventoryValidateCleanedData_NoMaxStockCheck(df) ==
  LET r == ValidateRequiredColumns(df, InventoryRequiredColumns)
  IN IF r.type # "none" THEN Raise(df, r)
     ELSE Raise(df, FirstError(<<
            ValidateNumericRange(df, "quantity", {0}, {}),
            ValidateNumericRange(df, "min_stock_level", {0}, {}),
            ValidateUniqueValues(df, "inventory_id")>>))

InventoryValidateCleanedData(df) ==
  LET r == ValidateRequiredColumns(df, InventoryRequiredColumns)
  IN IF r.type # "none" THEN Raise(df, r)
     ELSE Raise(df, FirstError(<<
            ValidateNumericRange(df, "quantity", {0}, {}),
            ValidateNumericRange(df, "min_stock_level", {0}, {}),
            ValidateNumericRange(df, "max_stock_level", {0}, {}),
            ValidateUniqueValues(df, "inventory_id")>>))

\* ------------------------------------------------------ ReviewsCleaner
ReviewsColumns ==
  {"review_id", "product_id", "customer_id", "rating", "helpful_votes",
   "created_at", "comment"}
ReviewsRequiredColumns ==
  {"review_id", "product_id", "customer_id", "rating", "created_at"}
ReviewsNumericColumns == <<"rating", "helpful_votes">>
ReviewsDateColumns == <<"created_at">>

ReviewsHandleNulls(df) ==
  LET e == ValidateNoNulls(df, {"review_id", "product_id", "customer_id",
                                "rating", "created_at"})
  IN IF e.type # "none" THEN Raise(df, e)
     ELSE Ok(FillColumn(df, "helpful_votes"))

ReviewsHandleDuplicates(df) == Ok(DropDuplicates(df, "review_id"))

ReviewsConvertTypes(df) ==
  LET n == ConvertColumns(df, ReviewsNumericColumns, "numeric", TRUE)
  IN IF Raised(n) THEN n
     ELSE ConvertColumns(n.df, ReviewsDateColumns, "date", TRUE)

ReviewsValidateCleanedData(df) ==
  LET r == ValidateRequiredColumns(df, ReviewsRequiredColumns)
  IN IF r.type # "none" THEN Raise(df, r)
     ELSE Raise(df, FirstError(<<
            ValidateNumericRange(df, "rating", {1}, {5}),
            ValidateNumericRange(df, "helpful_votes", {0}, {}),
            ValidateUniqueValues(df, "review_id")>>))

\* ------------------------------------------------------- OrdersCleaner
\* The four phases on the orders table: order_id is the key, the amounts
\* are the numeric columns and order_date the date column.
OrdersColumns ==
  {"order_id", "customer_id", "promotion_id", "total_amount", "shipping_cost",
   "discount_percent", "status", "order_date"}
OrdersRequiredColumns ==
  {"order_id", "customer_id", "total_amount", "status", "order_date"}
OrdersNumericColumns == <<"total_amount", "shipping_cost", "discount_percent">>
OrdersDateColumns == <<"order_date">>

OrdersHandleNulls(df) ==
  LET e == ValidateNoNulls(df, {"order_id"})
  IN IF e.type # "none" THEN Raise(df, e) ELSE Ok(df)

OrdersHandleDuplicates(df) == Ok(DropDuplicates(df, "order_id"))

OrdersConvertTypes(df) ==
  LET n == ConvertColumns(df, OrdersNumericColumns, "numeric", TRUE)
  IN IF Raised(n) THEN n
     ELSE ConvertColumns(n.df, OrdersDateColumns, "date", TRUE)

OrdersValidateCleanedData(df) ==
  LET r == ValidateRequiredColumns(df, OrdersRequiredColumns)
  IN IF r.type # "none" THEN Raise(df, r)
     ELSE Raise(df, ValidateUniqueValues(df, "order_id"))

\* ------------------------------------------------- DataCleaner.clean
Columns(e) ==
  CASE e = "inventory" -> InventoryColumns
    [] e = "reviews" -> ReviewsColumns
    [] e = "orders" -> OrdersColumns
KeyColumn(e) ==
  CASE e = "inventory" -> "inventory_id"
    [] e = "reviews" -> "review_id"
    [] e = "orders" -> "order_id"

HandleNulls(e, df) ==
  CASE e = "inventory" -> InventoryHandleNulls(df)
    [] e = "reviews" -> ReviewsHandleNulls(df)
    [] e = "orders" -> OrdersHandleNulls(df)
HandleDuplicates(e, df) ==
  CASE e = "inventory" -> InventoryHandleDuplicates(df)
    [] e = "reviews" -> ReviewsHandleDuplicates(df)
    [] e = "orders" -> OrdersHandleDuplicates(df)
ConvertTypes(e, df) ==
  CASE e = "inventory" -> InventoryConvertTypes(df)
    [] e = "reviews" -> ReviewsConvertTypes(df)
    [] e = "orders" -> OrdersConvertTypes(df)
ValidateCleanedData(e, df) ==
  CASE e = "inventory" -> InventoryValidateCleanedData(df)
    [] e = "reviews" -> ReviewsValidateCleanedData(df)
    [] e = "orders" -> OrdersValidateCleanedData(df)

RunPhase(e, p, df) ==
  CASE p = "handle_nulls" -> HandleNulls(e, df)
    [] p = "handle_duplicates" -> HandleDuplicates(e, df)
    [] p = "convert_types" -> ConvertTypes(e, df)
    [] p = "validate_cleaned_data" -> ValidateCleanedData(e, df)

\* A clean that converts types before it removes duplicates.
PhaseOrder_ConvertFirst ==
  <<"handle_nulls", "convert_types", "handle_duplicates", "validate_cleaned_data">>

\* The four phases of clean(df), in the order clean runs them.
PhaseOrder ==
  <<"handle_nulls", "handle_duplicates", "convert_types", "validate_cleaned_data">>

RECURSIVE CleanFrom(_, _, _)
\* clean(df) from its i-th phase on: each phase is handed the table the
\* previous one returned; the first phase that raises ends the call.
CleanFrom(e, df, i) ==
  IF i > Len(PhaseOrder) THEN Ok(df)
  ELSE LET r == RunPhase(e, PhaseOrder[i], df)
       IN IF Raised(r) THEN r ELSE CleanFrom(e, r.df, i + 1)

Clean(e, df) == CleanFrom(e, df, 1)

\* A cleaner none of whose phases makes a new table.
ReturnsArgument_NoNewTable(p) == TRUE

\* Whether a phase returns the very table it was handed. handle_nulls
\* returns what _fill_column returns and handle_duplicates what
\* drop_duplicates returns, both new tables; convert_types and
\* validate_cleaned_data end in "return df".
ReturnsArgument(p) == p \in {"convert_types", "validate_cleaned_data"}

\* Whether a phase assigns into the table it was handed (df[col] = ...).
AssignsInPlace(p) == p = "convert_types"

RECURSIVE ArgumentAfterFrom(_, _, _, _, _)
\* What the caller's table arg holds once clean has run from its i-th phase
\* on, df being the phase's table and shared telling whether df is arg.
ArgumentAfterFrom(e, arg, df, shared, i) ==
  IF i > Len(PhaseOrder) THEN arg
  ELSE LET ph == PhaseOrder[i]
           r == RunPhase(e, ph, df)
       IN IF Raised(r) THEN arg
          ELSE ArgumentAfterFrom(e, IF shared /\ AssignsInPlace(ph) THEN r.df ELSE arg,
                                 r.df, shared /\ ReturnsArgument(ph), i + 1)

\* The table the caller passed to clean, as it is after the call.
ArgumentAfterClean(e, t) == ArgumentAfterFrom(e, t, t, TRUE, 1)

\* Whether clean returns the table it was passed and not a new one.
CleanReturnsArgument == \A i \in DOMAIN PhaseOrder : ReturnsArgument(PhaseOrder[i])

\* ---------------------------------------------------------- merge
RECURSIVE MergeRows(_, _, _, _, _, _)
\* The rows of left.merge(right[cols + on], on=on, how=how) from the i-th
\* left row on: a left row is repeated once per right row with an equal
\* key (NaN keys match each other), in the right table's order; with
\* how = "left" a left row without a match is kept with nulls in cols, with
\* how = "inner" it is dropped.
MergeRows(L, R, on, cols, how, i) ==
  IF i > Len(L) THEN <<>>
  ELSE LET hits == Pick(R, {j \in 1..Len(R) : R[j][on] = L[i][on]}, 1)
           here == IF hits = <<>>
                   THEN IF how = "left" THEN <<L[i] @@ [c \in cols |-> Null]>>
                        ELSE <<>>
                   ELSE [n \in 1..Len(hits) |-> L[i] @@ [c \in cols |-> hits[n][c]]]
       IN here \o MergeRows(L, R, on, cols, how, i + 1)

\* left.merge(right[[on] + cols], on=on, how="inner")
Merge_Inner(left, right, on, cols) ==
  IF ~((cols \cup {on}) \subseteq right.cols)
  THEN Raise(left, Error("KeyError", (cols \cup {on}) \ right.cols))
  ELSE Ok([cols |-> left.cols \cup cols,
           rows |-> MergeRows(left.rows, right.rows, on, cols, "inner", 1)])

\* left.merge(right[[on] + cols], on=on, how="left"); right[...] raises
\* KeyError when the catalog lacks one of the columns.
Merge(left, right, on, cols) ==
  IF ~((cols \cup {on}) \subseteq right.cols)
  THEN Raise(left, Error("KeyError", (cols \cup {on}) \ right.cols))
  ELSE Ok([cols |-> left.cols \cup cols,
           rows |-> MergeRows(left.rows, right.rows, on, cols, "left", 1)])

\* df[c] = f(row) for every row
AddColumn(t, c, f(_)) ==
  [cols |-> t.cols \cup {c},
   rows |-> [i \in RowIdx(t) |-> (c :> f(t.rows[i])) @@ t.rows[i]]]

\* series.dt.to_period("M") and ("W") on one value; NaT stays NaT.
MonthOf(c) == IF c.k = "ts" THEN [k |-> "month", v |-> c.v \div 100] ELSE Null
WeekOf(c) ==
  IF c.k = "ts"
  THEN [k |-> "week", v |-> (((c.v \div 100) - 1) * 31 + (c.v % 100) - 1) \div 7]
  ELSE Null

\* ------------------------------------------------------ OrdersEnricher
CustomersColumns ==
  {"customer_id", "segment", "registration_date", "city", "country", "email"}
PromotionsColumns ==
  {"promotion_id", "promotion_type", "discount_value", "start_date",
   "end_date", "is_active"}
OrderItemsColumns ==
  {"order_id", "product_id", "quantity", "unit_price", "subtotal"}
ProductsColumns == {"product_id", "product_name", "category_id", "brand_id"}

OrdersValidateCustomers(customers) ==
  LET e == FirstError(<<
        ValidateRequiredColumns(customers, {"customer_id", "segment", "registration_date"}),
        IF {"customer_id", "segment"} \subseteq customers.cols
        THEN ValidateNoNulls(customers, {"customer_id", "segment"}) ELSE NoError>>)
  IN IF e.type # "none" THEN Raise(customers, e)
     ELSE Ok(MapCol(customers, "registration_date", ToDatetime))

OrdersValidatePromotions(promotions) ==
  LET expected == {"promotion_id", "promotion_type", "discount_value", "is_active"}
      e == FirstError(<<
        ValidateRequiredColumns(promotions, expected),
        IF expected \subseteq promotions.cols
        THEN ValidateNoNulls(promotions, {"promotion_id", "promotion_type", "is_active"})
        ELSE NoError,
        IF expected \subseteq promotions.cols
        THEN ValidateNumericRange(promotions, "discount_value", {0}, {})
        ELSE NoError>>)
  IN IF e.type # "none" THEN Raise(promotions, e)
     ELSE ConvertColumns(promotions, <<"start_date", "end_date">>, "date", FALSE)

OrdersValidateOrderItems(items) ==
  LET expected == {"order_id", "product_id", "quantity", "unit_price", "subtotal"}
      e == FirstError(<<
        ValidateRequiredColumns(items, expected),
        IF expected \subseteq items.cols
        THEN ValidateNoNulls(items, {"order_id", "product_id"}) ELSE NoError>>)
  IN IF e.type # "none" THEN Raise(items, e)
     ELSE ConvertColumns(items, <<"quantity", "unit_price", "subtotal">>, "numeric", FALSE)

\* A _join_customer_data that merges with how="inner".
OrdersJoinCustomerData_Inner(orders, customers) ==
  Merge_Inner(orders, customers, "customer_id",
              {"segment", "registration_date", "city", "country", "email"})

OrdersJoinCustomerData(orders, customers) ==
  Merge(orders, customers, "customer_id",
        {"segment", "registration_date", "city", "country", "email"})

OrdersJoinPromotionData(orders, promotions) ==
  Merge(orders, promotions, "promotion_id",
        {"promotion_type", "discount_value", "start_date", "end_date", "is_active"})

RECURSIVE SumQuantity(_, _, _)
\* groupby("order_id").agg({"quantity": "sum"}) for one key: the sum of the
\* quantities of the items of order k from item i on; a NaN is skipped.
SumQuantity(items, k, i) ==
  IF i > Len(items) THEN 0
  ELSE (IF items[i]["order_id"] = k /\ items[i]["quantity"].k = "num"
        THEN items[i]["quantity"].v ELSE 0)
       + SumQuantity(items, k, i + 1)

\* items_count of an order after the left merge with the grouped items:
\* NaN for an order that has no row in order_items (a NaN key is no group).
ItemsCount(items, k) ==
  IF ~IsNa(k) /\ \E i \in 1..Len(items) : items[i]["order_id"] = k
  THEN Num(SumQuantity(items, k, 1))
  ELSE Null

\* An avg_item_price that divides without the guard: NaN or inf stay.
AvgItemPrice_Unguarded(total, count) ==
  IF total.k = "num" /\ count.k = "num" /\ count.v # 0
  THEN Ratio(total.v, count.v)
  ELSE Null

\* (total_amount / items_count.replace(0, NA)).fillna(0) on one row
AvgItemPrice(total, count) ==
  IF total.k = "num" /\ count.k = "num" /\ count.v # 0
  THEN Ratio(total.v, count.v)
  ELSE Ratio(0, 1)

OrdersCalculateCountAndAveragePrice(orders, items) ==
  LET counted == AddColumn(orders, "items_count",
                           LAMBDA r : ItemsCount(items.rows, r["order_id"]))
  IN AddColumn(counted, "avg_item_price",
               LAMBDA r : AvgItemPrice(r["total_amount"], r["items_count"]))

\* An _add_derived_columns whose is_high_discount starts above 20.
OrdersAddDerivedColumns_HighAbove20(df) ==
  LET m == AddColumn(df, "order_month", LAMBDA r : MonthOf(r["order_date"]))
      w == AddColumn(m, "order_week", LAMBDA r : WeekOf(r["order_date"]))
      p == AddColumn(w, "used_promotion", LAMBDA r : Bool(~IsNa(r["promotion_id"])))
      f == AddColumn(p, "is_free_shipping",
                     LAMBDA r : Bool(IsNa(r["shipping_cost"]) \/ r["shipping_cost"].v = 0))
  IN AddColumn(f, "is_high_discount",
               LAMBDA r : Bool(~IsNa(r["discount_percent"]) /\ r["discount_percent"].v > 20))

OrdersAddDerivedColumns(df) ==
  LET m == AddColumn(df, "order_month", LAMBDA r : MonthOf(r["order_date"]))
      w == AddColumn(m, "order_week", LAMBDA r : WeekOf(r["order_date"]))
      p == AddColumn(w, "used_promotion", LAMBDA r : Bool(~IsNa(r["promotion_id"])))
      f == AddColumn(p, "is_free_shipping",
                     LAMBDA r : Bool(IsNa(r["shipping_cost"]) \/ r["shipping_cost"].v = 0))
  IN AddColumn(f, "is_high_discount",
               LAMBDA r : Bool(~IsNa(r["discount_percent"]) /\ r["discount_percent"].v >= 20))

\* What _validate_<catalog> returns for the catalog c.
OrdersValidateCatalog(name, c) ==
  CASE name = "customers" -> OrdersValidateCustomers(c)
    [] name = "order_items" -> OrdersValidateOrderItems(c)
    [] name = "promotions" -> OrdersValidatePromotions(c)
    [] OTHER -> Ok(c)

\* A validation that converts the columns of the catalog it was passed.
CatalogAfterValidate_NoCopy(name, c) == OrdersValidateCatalog(name, c).df

\* The catalog the caller passed, as it is after _validate_<catalog>: the
\* conversions are assigned to a copy (customers_df = customers_df.copy()).
CatalogAfterValidate(name, c) == c

\* The catalogs the caller passed to enrich, as they are after the call.
\* OrdersEnricher validates its catalogs once the orders are cleaned
\* (cleanRaised tells whether clean raised); ReviewsEnricher reads its
\* catalogs and assigns nothing to them.
CatalogsAfterEnrich(e, cleanRaised, cs) ==
  IF e = "orders" /\ ~cleanRaised
  THEN [n \in DOMAIN cs |-> CatalogAfterValidate(n, cs[n])]
  ELSE cs

\* OrdersEnricher.enrich after _clean_orders: the catalogs are validated,
\* then joined, then the derived columns are added.
OrdersEnrichCleaned(orders, cats) ==
  LET c == OrdersValidateCustomers(cats.customers)
      i == OrdersValidateOrderItems(cats.order_items)
      p == OrdersValidatePromotions(cats.promotions)
  IN IF Raised(c) THEN Raise(orders, c.err)
     ELSE IF Raised(i) THEN Raise(orders, i.err)
     ELSE IF Raised(p) THEN Raise(orders, p.err)
     ELSE LET jc == OrdersJoinCustomerData(orders, c.df)
          IN IF Raised(jc) THEN jc
             ELSE LET jp == OrdersJoinPromotionData(jc.df, p.df)
                  IN IF Raised(jp) THEN jp
                     ELSE Ok(OrdersAddDerivedColumns(
                               OrdersCalculateCountAndAveragePrice(jp.df, i.df)))

\* ----------------------------------------------------- ReviewsEnricher
ReviewsJoinProducts(reviews, products) ==
  LET cols == {"product_id", "product_name", "category_id", "brand_id"}
      e == FirstError(<<ValidateRequiredColumns(products, cols),
                        IF cols \subseteq products.cols
                        THEN ValidateNoNulls(products, products.cols) ELSE NoError>>)
  IN IF e.type # "none" THEN Raise(reviews, e)
     ELSE Merge(reviews, products, "product_id",
                {"product_name", "category_id", "brand_id"})

\* A _join_customers that merges with how="inner".
ReviewsJoinCustomers_Inner(reviews, customers) ==
  LET e == ValidateRequiredColumns(customers, {"customer_id"})
  IN IF e.type # "none" THEN Raise(reviews, e)
     ELSE Merge_Inner(reviews, customers, "customer_id", {"segment", "city", "country"})

ReviewsJoinCustomers(reviews, customers) ==
  LET e == ValidateRequiredColumns(customers, {"customer_id"})
  IN IF e.type # "none" THEN Raise(reviews, e)
     ELSE Merge(reviews, customers, "customer_id", {"segment", "city", "country"})

\* An _add_derived_columns whose is_positive starts above 4.
ReviewsAddDerivedColumns_PositiveAbove4(df) ==
  IF "comment" \notin df.cols THEN Raise(df, Error("KeyError", {"comment"}))
  ELSE
  LET m == AddColumn(df, "review_month", LAMBDA r : MonthOf(r["created_at"]))
      l == AddColumn(m, "comment_length",
                     LAMBDA r : IF IsNa(r["comment"]) THEN Num(0) ELSE Num(r["comment"].v))
      p == AddColumn(l, "is_positive",
                     LAMBDA r : Bool(~IsNa(r["rating"]) /\ r["rating"].v > 4))
  IN Ok(AddColumn(p, "is_negative",
                  LAMBDA r : Bool(~IsNa(r["rating"]) /\ r["rating"].v <= 2)))

ReviewsAddDerivedColumns(df) ==
  IF "comment" \notin df.cols THEN Raise(df, Error("KeyError", {"comment"}))
  ELSE
  LET m == AddColumn(df, "review_month", LAMBDA r : MonthOf(r["created_at"]))
      l == AddColumn(m, "comment_length",
                     LAMBDA r : IF IsNa(r["comment"]) THEN Num(0) ELSE Num(r["comment"].v))
      p == AddColumn(l, "is_positive",
                     LAMBDA r : Bool(~IsNa(r["rating"]) /\ r["rating"].v >= 4))
  IN Ok(AddColumn(p, "is_negative",
                  LAMBDA r : Bool(~IsNa(r["rating"]) /\ r["rating"].v <= 2)))

\* ReviewsEnricher.enrich after _clean_reviews.
ReviewsEnrichCleaned(reviews, cats) ==
  LET jp == ReviewsJoinProducts(reviews, cats.products)
  IN IF Raised(jp) THEN jp
     ELSE LET jc == ReviewsJoinCustomers(jp.df, cats.customers)
          IN IF Raised(jc) THEN jc ELSE ReviewsAddDerivedColumns(jc.df)

EnrichCleaned(e, t, cats) ==
  IF e = "orders" THEN OrdersEnrichCleaned(t, cats) ELSE ReviewsEnrichCleaned(t, cats)

\* ---------------------------------------------------------- aggregators
\* A status string: word w, written in lower case (u = 0) or capitalised
\* (u = 1).
Status(w, u) == [k |-> "cat", v |-> 2 * w + u]
Delivered == Status(1, 0)
Cancelled == Status(2, 0)
Pending == Status(3, 0)
Processing == Status(4, 0)
Shipped == Status(5, 0)

\* Series.str.lower() on one cell: NaN stays NaN.
StrLower(c) == IF c.k = "cat" THEN [k |-> "cat", v |-> 2 * (c.v \div 2)] ELSE c

Month(n) == [k |-> "month", v |-> n]

\* Values of column c, nulls left out.
ColumnValues(t, c) == {t.rows[i][c] : i \in {j \in RowIdx(t) : ~IsNa(t.rows[j][c])}}

\* Number of rows of t satisfying keep.
CountRows(t, keep(_)) == Cardinality({i \in RowIdx(t) : keep(t.rows[i])})

RECURSIVE SumColumn(_, _, _)
\* Series.sum() of the numeric column c from row i on: a NaN is skipped.
SumColumn(rows, c, i) ==
  IF i > Len(rows) THEN 0
  ELSE (IF rows[i][c].k = "num" THEN rows[i][c].v ELSE 0) + SumColumn(rows, c, i + 1)

\* Series.mean() of a numeric column: NaN values are skipped, the mean of
\* nothing is NaN.
MeanColumn(t, c) ==
  LET n == CountRows(t, LAMBDA r : r[c].k = "num")
  IN IF n = 0 THEN Null ELSE Ratio(SumColumn(t.rows, c, 1), n)

\* Series.mean() of a boolean column or comparison: the fraction of rows
\* where it is true; NaN on an empty table.
MeanBool(t, holds(_)) ==
  IF Len(t.rows) = 0 THEN Null
  ELSE Ratio(CountRows(t, holds), Len(t.rows))

\* df[df[c] == v]: the rows of t with key v in column c, in order.
GroupRows(t, c, v) ==
  [cols |-> t.cols, rows |-> Pick(t.rows, {i \in RowIdx(t) : t.rows[i][c] = v}, 1)]

\* The elements of S as a sequence in the strict total order before.
InOrder(S, before(_, _)) ==
  [i \in 1..Cardinality(S) |->
     CHOOSE x \in S : Cardinality({y \in S : before(y, x)}) = i - 1]

\* The sequences that hold each element of S once.
Orderings(S) ==
  {f \in [1..Cardinality(S) -> S] : \A x \in S : \E i \in 1..Cardinality(S) : f[i] = x}

\* df[c] on a table without column c.
MissingColumn(t, c) == Raise(t, Error("KeyError", {c}))

\* ----------------------------------------------- OrderLifecycleAggregator
\* A status_funnel whose shares are taken of all the rows of the table.
StatusFunnelRows_ShareOfAllRows(df) ==
  {[status |-> v,
    orders |-> Num(CountRows(df, LAMBDA r : r["status"] = v)),
    share |-> Ratio(CountRows(df, LAMBDA r : r["status"] = v), Len(df.rows))] :
     v \in ColumnValues(df, "status")}

\* The rows of status_funnel, before ordering: one per status value that
\* occurs; value_counts leaves NaN out.
StatusFunnelRows(df) ==
  LET total == CountRows(df, LAMBDA r : ~IsNa(r["status"]))
  IN {[status |-> v,
       orders |-> Num(CountRows(df, LAMBDA r : r["status"] = v)),
       share |-> Ratio(CountRows(df, LAMBDA r : r["status"] = v), total)] :
        v \in ColumnValues(df, "status")}

\* status_funnel: every table it may return. value_counts orders by
\* descending count and leaves the order of equal counts open.
StatusFunnel(df) ==
  IF "status" \notin df.cols THEN {MissingColumn(df, "status")}
  ELSE {Ok([cols |-> {"status", "orders", "share"}, rows |-> f]) :
          f \in {g \in Orderings(StatusFunnelRows(df)) :
                   \A i, j \in DOMAIN g : i < j => g[i]["orders"].v >= g[j]["orders"].v}}

\* A rate that takes the orders in any other status.
StatusRate_OtherStatuses(df, word) ==
  IF "status" \notin df.cols THEN MissingColumn(df, "status")
  ELSE [df |-> MeanBool(df, LAMBDA r : StrLower(r["status"]) # word), err |-> NoError]

\* (df["status"].str.lower() == word).mean(), as a scalar
StatusRate(df, word) ==
  IF "status" \notin df.cols THEN MissingColumn(df, "status")
  ELSE [df |-> MeanBool(df, LAMBDA r : StrLower(r["status"]) = word), err |-> NoError]

CancellationRate(df) == StatusRate(df, Cancelled)
DeliveryRate(df) == StatusRate(df, Delivered)

\* A backlog that takes delivered orders as still in progress.
InProgressStatus_WithDelivered == {Pending, Processing, Shipped, Delivered}

InProgressStatus == {Pending, Processing, Shipped}

\* in_progress_backlog
InProgressBacklog(df) ==
  IF "status" \notin df.cols THEN MissingColumn(df, "status")
  ELSE IF "order_month" \notin df.cols THEN MissingColumn(df, "order_month")
  ELSE IF ~({"order_id", "total_amount"} \subseteq df.cols)
  THEN Raise(df, Error("KeyError", {"order_id", "total_amount"} \ df.cols))
  ELSE
  LET filtered == [cols |-> df.cols,
                   rows |-> Pick(df.rows, {i \in RowIdx(df) :
                                   StrLower(df.rows[i]["status"]) \in InProgressStatus}, 1)]
      groups == {[order_month |-> m,
                  backlog_orders |->
                    Num(CountRows(GroupRows(filtered, "order_month", m),
                                  LAMBDA r : ~IsNa(r["order_id"]))),
                  backlog_value |->
                    Num(SumColumn(GroupRows(filtered, "order_month", m).rows,
                                  "total_amount", 1))] :
                   m \in ColumnValues(filtered, "order_month")}
  IN Ok([cols |-> {"order_month", "backlog_orders", "backlog_value"},
         rows |-> InOrder(groups, LAMBDA x, y : x["order_month"].v < y["order_month"].v)])

\* --------------------------------------------- ReviewAnalyticsAggregator
\* rating_overview
RatingOverview(df) ==
  IF ~({"rating", "is_positive", "is_negative"} \subseteq df.cols)
  THEN Raise(df, Error("KeyError", {"rating", "is_positive", "is_negative"} \ df.cols))
  ELSE Ok([cols |-> {"average_rating", "positive_rate", "negative_rate", "review_count"},
           rows |-> <<[average_rating |-> MeanColumn(df, "rating"),
                       positive_rate |-> MeanBool(df, LAMBDA r : r["is_positive"].v = 1),
                       negative_rate |-> MeanBool(df, LAMBDA r : r["is_negative"].v = 1),
                       review_count |-> Num(Len(df.rows))]>>])

\* groupby("product_id").agg(...): one row per product.
ProductGroups(df) ==
  {LET g == GroupRows(df, "product_id", p)
       named == Pick(g.rows, {i \in RowIdx(g) : ~IsNa(g.rows[i]["product_name"])}, 1)
   IN [product_id |-> p,
       product_name |-> IF named = <<>> THEN Null ELSE named[1]["product_name"],
       average_rating |-> MeanColumn(g, "rating"),
       review_count |-> Num(CountRows(g, LAMBDA r : ~IsNa(r["review_id"]))),
       positive_rate |-> MeanBool(g, LAMBDA r : r["is_positive"].v = 1)] :
     p \in ColumnValues(df, "product_id")}

\* Whether the fraction a is greater than the fraction b.
RatioGreater(a, b) == a.v[1] * b.v[2] > b.v[1] * a.v[2]

\* A ranking by average_rating alone: equal averages keep the order of
\* groupby.
RankedBefore_AverageOnly(x, y) ==
  LET ax == x["average_rating"]
      ay == y["average_rating"]
  IN \/ ~IsNa(ax) /\ IsNa(ay)
     \/ ~IsNa(ax) /\ ~IsNa(ay) /\ RatioGreater(ax, ay)
     \/ /\ (IsNa(ax) /\ IsNa(ay)) \/
           (~IsNa(ax) /\ ~IsNa(ay) /\ ~RatioGreater(ax, ay) /\ ~RatioGreater(ay, ax))
        /\ x["product_id"].v < y["product_id"].v

\* sort_values(["average_rating", "review_count"], ascending=[False, False]):
\* NaN averages last; the sort is stable, so rows equal in both keep the
\* order of groupby, ascending product_id.
RankedBefore(x, y) ==
  LET ax == x["average_rating"]
      ay == y["average_rating"]
      sameAvg == (IsNa(ax) /\ IsNa(ay)) \/
                 (~IsNa(ax) /\ ~IsNa(ay) /\ ~RatioGreater(ax, ay) /\ ~RatioGreater(ay, ax))
  IN \/ ~IsNa(ax) /\ IsNa(ay)
     \/ ~IsNa(ax) /\ ~IsNa(ay) /\ RatioGreater(ax, ay)
     \/ /\ sameAvg
        /\ \/ x["review_count"].v > y["review_count"].v
           \/ /\ x["review_count"].v = y["review_count"].v
              /\ x["product_id"].v < y["product_id"].v

\* A rating_by_product without the minimum: every product is ranked.
RatingByProduct_NoMinimum(df, min_reviews, top_n) ==
  IF ~({"product_id", "product_name", "rating", "review_id", "is_positive"}
         \subseteq df.cols)
  THEN MissingColumn(df, "product_id")
  ELSE
  LET ranked == InOrder(ProductGroups(df), RankedBefore)
  IN Ok([cols |-> {"product_id", "product_name", "average_rating", "review_count",
                   "positive_rate"},
         rows |-> SubSeq(ranked, 1, IF top_n < Len(ranked) THEN top_n ELSE Len(ranked))])

\* rating_by_product
RatingByProduct(df, min_reviews, top_n) ==
  IF "product_id" \notin df.cols THEN MissingColumn(df, "product_id")
  ELSE IF ~({"product_name", "rating", "review_id", "is_positive"} \subseteq df.cols)
  THEN Raise(df, Error("KeyError",
                       {"product_name", "rating", "review_id", "is_positive"} \ df.cols))
  ELSE
  LET filtered == {g \in ProductGroups(df) : g["review_count"].v >= min_reviews}
      ranked == InOrder(filtered, RankedBefore)
  IN Ok([cols |-> {"product_id", "product_name", "average_rating", "review_count",
                   "positive_rate"},
         rows |-> SubSeq(ranked, 1, IF top_n < Len(ranked) THEN top_n ELSE Len(ranked))])

\* monthly_review_volume
MonthlyReviewVolume(df) ==
  IF "review_month" \notin df.cols THEN MissingColumn(df, "review_month")
  ELSE IF ~({"review_id", "rating"} \subseteq df.cols)
  THEN Raise(df, Error("KeyError", {"review_id", "rating"} \ df.cols))
  ELSE
  LET groups == {LET g == GroupRows(df, "review_month", m)
                 IN [review_month |-> m,
                     volume |-> Num(CountRows(g, LAMBDA r : ~IsNa(r["review_id"]))),
                     average_rating |-> MeanColumn(g, "rating")] :
                   m \in ColumnValues(df, "review_month")}
  IN Ok([cols |-> {"review_month", "volume", "average_rating"},
         rows |-> InOrder(groups, LAMBDA x, y : x["review_month"].v < y["review_month"].v)])

\* ------------------------------------------------------- raw tables
\* A well-formed row of the entity, the i-th of its table.
DefaultRow(e, i) ==
  CASE e = "inventory" ->
         [inventory_id |-> Num(i), product_id |-> Num(i), warehouse_id |-> Num(i),
          quantity |-> Num(5), min_stock_level |-> Num(0),
          max_stock_level |-> Num(9), last_restock_date |-> Str(101)]
    [] e = "reviews" ->
         [review_id |-> Num(i), product_id |-> Num(i), customer_id |-> Num(i),
          rating |-> Num(5), helpful_votes |-> Num(3), created_at |-> Str(101),
          comment |-> Txt(5)]
    [] e = "orders" ->
         [order_id |-> Num(i), customer_id |-> Num(i), promotion_id |-> Num(i),
          total_amount |-> Num(12), shipping_cost |-> Num(0),
          discount_percent |-> Num(10), status |-> Txt(9),
          order_date |-> Str(101)]

\* The values a raw cell of column c takes in place of the well-formed one.
CellDomain(e, c) ==
  CASE c \in {"inventory_id", "review_id", "order_id"} ->
         {Null} \cup {Num(n) : n \in 1..MaxRows}
    [] c \in {"product_id", "warehouse_id", "customer_id", "promotion_id"} ->
         {Null, Num(1)}
    [] c \in {"quantity", "min_stock_level", "max_stock_level", "helpful_votes"} ->
         {Null, Bad, Num(-1), Str(2)}
    [] c = "rating" -> {Null, Bad, Num(-1), Num(0), Str(4)}
    [] c \in {"last_restock_date", "created_at"} -> {Null, Bad, Ts(101)}
    [] c = "comment" -> {Null}
    [] c = "total_amount" -> {Bad, Num(0)}
    [] c = "shipping_cost" -> {Num(5)}
    [] OTHER -> {}

\* Columns a raw table may lack.
OptionalColumns(e) == IF e = "inventory" THEN {"last_restock_date"} ELSE {}

EmptyTable == [cols |-> {}, rows |-> <<>>]

\* How far a raw table is from a table of well-formed rows with every column.
Edits(e, t) ==
  Cardinality({ic \in RowIdx(t) \X t.cols :
                 t.rows[ic[1]][ic[2]] # DefaultRow(e, ic[1])[ic[2]]})
  + Cardinality(Columns(e) \ t.cols)

Restrict(row, cols) == [c \in cols |-> row[c]]

\* ---------------------------------------------------------- catalogs
CatalogNames == {"customers", "promotions", "order_items", "products"}

\* The catalogs the entity's enricher is given.
CatalogsOf(e) ==
  IF e = "orders" THEN {"customers", "promotions", "order_items"}
  ELSE IF e = "reviews" THEN {"products", "customers"}
  ELSE {}

CatalogColumns(name) ==
  CASE name = "customers" -> CustomersColumns
    [] name = "promotions" -> PromotionsColumns
    [] name = "order_items" -> OrderItemsColumns
    [] name = "products" -> ProductsColumns

\* A well-formed row of a catalog, the j-th of its table.
DefaultCatalogRow(name, j) ==
  CASE name = "customers" ->
         [customer_id |-> Num(j), segment |-> Txt(3), registration_date |-> Str(101),
          city |-> Txt(5), country |-> Txt(8), email |-> Txt(15)]
    [] name = "promotions" ->
         [promotion_id |-> Num(j), promotion_type |-> Txt(6), discount_value |-> Num(10),
          start_date |-> Str(101), end_date |-> Str(131), is_active |-> Bool(TRUE)]
    [] name = "order_items" ->
         [order_id |-> Num(j), product_id |-> Num(1), quantity |-> Num(2),
          unit_price |-> Num(6), subtotal |-> Num(12)]
    [] name = "products" ->
         [product_id |-> Num(j), product_name |-> Txt(6), category_id |-> Num(1000),
          brand_id |-> Num(2000)]

\* The values a catalog cell takes in place of the well-formed one.
CatalogCellDomain(name, c) ==
  CASE c \in {"customer_id", "promotion_id"} /\ name \in {"customers", "promotions"} ->
         {Null, Num(1)}
    [] c = "product_id" /\ name = "products" -> {Null, Num(1)}
    [] c = "order_id" /\ name = "order_items" -> {Null, Num(1)}
    [] c = "quantity" /\ name = "order_items" -> {Bad, Num(0)}
    [] c = "product_name" -> {Null}
    [] OTHER -> {}

CatalogEdits(cs) ==
  Cardinality({njc \in UNION {{n} \X RowIdx(cs[n]) \X cs[n].cols : n \in CatalogNames} :
                 cs[njc[1]].rows[njc[2]][njc[3]] # DefaultCatalogRow(njc[1], njc[2])[njc[3]]})

NoCatalogs == [n \in CatalogNames |-> EmptyTable]

VARIABLES
  entity,   \* "inventory", "reviews" or "orders": the primary table's entity
  raw,      \* the raw primary table, as extracted
  cats,     \* the reference catalogs, as extracted, by name
  pc,       \* where the call under way stands
  df,       \* the caller's current table: clean's df, then what enrich returns
  err,      \* the error the call raised
  log,      \* the phases the current clean call has run: [phase, in, out, err]
  calls,    \* number of clean calls started on the primary table
  first,    \* what the first clean call returned
  caller,   \* who calls enrich: "test", "pipeline" (pipeline/transform.py), "main"
  handed,   \* the primary table enrich was called with
  handedCleaned, \* whether that table is the output of a clean call
  cleaned,  \* the primary table after the enricher's own clean step
  enr,      \* the enriched table the aggregators are given
  enr0,     \* that table as it was before the first aggregator call
  agg,      \* the last aggregator call: [op, args, out, err]
  aggCalls, \* number of aggregator calls made on enr
  run,      \* the ETL run: [stage, formats, pos, done, raisedIn, results]
  written,  \* the files the load stage has saved, in order
  excs,     \* the ETLError objects constructed so far
  logs,     \* the records each logger has received
  ext,      \* an extractor: its attributes and its last call
  ldr       \* the target directory and the last loader construction

vars == <<entity, raw, cats, pc, df, err, log, calls, first, caller, handed,
          handedCleaned, cleaned, enr, enr0, agg, aggCalls, run, written, excs,
          logs, ext, ldr>>
enrichVars == <<caller, handed, handedCleaned, cleaned>>
cleanVars == <<raw, cats, df, err, log, calls, first>>
aggVars == <<enr, enr0, agg, aggCalls>>
\* What the cleaner and enricher runs leave alone.
runVars == <<run, written>>
excVars == <<excs, logs>>
ioVars == <<ext, ldr>>
moreVars == <<aggVars, runVars, excVars, ioVars>>

NoCall == [op |-> "none", args |-> <<>>, out |-> EmptyTable, err |-> NoError]

\* No call was made on the extractor yet.
NoExtractorCall ==
  [op |-> "none", raised |-> "none", message |-> "", value |-> "None",
   data_before |-> "None", timestamp_before |-> Null]

\* BaseExtractor.__init__ under MockExtractor.__init__(data, should_fail):
\* no data, no timestamp and no profile keys in the metadata. A table is
\* its name and None is "None"; extracted counts the calls of extract that
\* returned.
BaseExtractorInit(data, should_fail) ==
  [data |-> "None", timestamp |-> Null, profiled |-> FALSE,
   mock_data |-> data, should_fail |-> should_fail, extracted |-> 0,
   last |-> NoExtractorCall]

NoExtractor == BaseExtractorInit("None", FALSE)

\* No loader was constructed; the target directory exists.
NoLoader ==
  [dir |-> TRUE, kind |-> "none", target_existed |-> TRUE, created |-> FALSE,
   raised |-> "none"]

Loggers == {"transform_logger", "load_logger"}

NoRun == [stage |-> "idle", formats |-> {}, pos |-> 0, done |-> {},
          raisedIn |-> "none", results |-> FALSE]

\* No run of the stages is under way and no error has been constructed.
InitIdle ==
  /\ run = NoRun
  /\ written = <<>>
  /\ excs = <<>>
  /\ logs = [l \in Loggers |-> <<>>]
  /\ ext = NoExtractor
  /\ ldr = NoLoader

InitMore ==
  /\ enr = EmptyTable
  /\ enr0 = EmptyTable
  /\ agg = NoCall
  /\ aggCalls = 0
  /\ InitIdle

InitCommon ==
  /\ pc = "input"
  /\ df = EmptyTable
  /\ err = NoError
  /\ log = <<>>
  /\ calls = 0
  /\ first = EmptyTable
  /\ caller = "none"
  /\ handed = EmptyTable
  /\ handedCleaned = FALSE
  /\ cleaned = EmptyTable
  /\ InitMore

\* A cleaner is exercised on its own.
Init ==
  /\ entity \in {"inventory", "reviews"}
  /\ raw = [cols |-> Columns(entity), rows |-> <<>>]
  /\ cats = NoCatalogs
  /\ InitCommon

\* The argument of the current clean call.
Arg == IF calls = 2 THEN first ELSE raw

\* Extraction delivers one more well-formed row.
AppendRow ==
  /\ pc = "input"
  /\ Len(raw.rows) < MaxRows
  /\ raw' = [raw EXCEPT !.rows =
               Append(@, Restrict(DefaultRow(entity, Len(raw.rows) + 1), raw.cols))]
  /\ UNCHANGED <<entity, cats, pc, df, err, log, calls, first>>
  /\ UNCHANGED enrichVars
  /\ UNCHANGED moreVars

\* One cell of the raw table holds another value of its column's domain.
SetCell ==
  /\ pc = "input"
  /\ \E i \in RowIdx(raw), c \in raw.cols :
       \E v \in CellDomain(entity, c) \ {raw.rows[i][c]} :
         /\ raw.rows[i][c] = DefaultRow(entity, i)[c]
         /\ raw' = [raw EXCEPT !.rows[i][c] = v]
         /\ Edits(entity, raw') <= MaxEdits
  /\ UNCHANGED <<entity, cats, pc, df, err, log, calls, first>>
  /\ UNCHANGED enrichVars
  /\ UNCHANGED moreVars

\* The raw table lacks an optional column.
DropColumn ==
  /\ pc = "input"
  /\ \E c \in OptionalColumns(entity) \cap raw.cols :
       /\ raw' = [cols |-> raw.cols \ {c},
                  rows |-> [i \in RowIdx(raw) |-> Restrict(raw.rows[i], raw.cols \ {c})]]
       /\ Edits(entity, raw') <= MaxEdits
  /\ UNCHANGED <<entity, cats, pc, df, err, log, calls, first>>
  /\ UNCHANGED enrichVars
  /\ UNCHANGED moreVars

\* cleaner.clean(raw)
CallClean ==
  /\ pc = "input"
  /\ pc' = "cleaning"
  /\ df' = raw
  /\ calls' = 1
  /\ log' = <<>>
  /\ UNCHANGED <<entity, raw, cats, err, first>>
  /\ UNCHANGED enrichVars
  /\ UNCHANGED moreVars

\* clean runs its next phase on df and keeps what the phase returns.
PhaseStep(p) ==
  /\ pc = "cleaning"
  /\ Len(log) < Len(PhaseOrder)
  /\ PhaseOrder[Len(log) + 1] = p
  /\ LET r == RunPhase(entity, p, df)
     IN /\ log' = Append(log, [phase |-> p, in |-> df, out |-> r.df, err |-> r.err])
        /\ IF Raised(r)
           THEN /\ pc' = "raised"
                /\ err' = r.err
                /\ df' = df
           ELSE /\ pc' = IF Len(log) + 1 = Len(PhaseOrder) THEN "returned" ELSE "cleaning"
                /\ err' = err
                /\ df' = r.df
  /\ UNCHANGED <<entity, raw, cats, calls, first>>
  /\ UNCHANGED enrichVars
  /\ UNCHANGED moreVars

HandleNullsStep == PhaseStep("handle_nulls")
HandleDuplicatesStep == PhaseStep("handle_duplicates")
ConvertTypesStep == PhaseStep("convert_types")
ValidateCleanedDataStep == PhaseStep("validate_cleaned_data")

\* cleaner.clean(cleaner.clean(raw)): the returned table is cleaned again.
CleanAgain ==
  /\ pc = "returned"
  /\ calls = 1
  /\ first' = df
  /\ calls' = 2
  /\ pc' = "cleaning"
  /\ log' = <<>>
  /\ UNCHANGED <<entity, raw, cats, df, err>>
  /\ UNCHANGED enrichVars
  /\ UNCHANGED moreVars

\* cleaner.handle_duplicates(raw), called on its own as the unit tests do.
DirectHandleDuplicates ==
  /\ pc = "input"
  /\ LET r == HandleDuplicates(entity, raw)
     IN /\ log' = <<[phase |-> "handle_duplicates", in |-> raw, out |-> r.df, err |-> r.err]>>
        /\ df' = r.df
  /\ pc' = "unit_done"
  /\ UNCHANGED <<entity, raw, cats, err, calls, first>>
  /\ UNCHANGED enrichVars
  /\ UNCHANGED moreVars

Next ==
  \/ AppendRow
  \/ SetCell
  \/ DropColumn
  \/ CallClean
  \/ HandleNullsStep
  \/ HandleDuplicatesStep
  \/ ConvertTypesStep
  \/ ValidateCleanedDataStep
  \/ CleanAgain
  \/ DirectHandleDuplicates

Spec == Init /\ [][Next]_vars

\* ------------------------------------------------ aggregation runs
\* The columns of an enriched table that the aggregators read.
AggColumns(e) ==
  IF e = "orders" THEN {"order_id", "status", "order_month", "total_amount"}
  ELSE {"review_id", "product_id", "product_name", "rating", "is_positive",
        "is_negative", "review_month"}

\* The columns the aggregators group or filter on.
GroupingColumns(e) ==
  IF e = "orders" THEN {"status", "order_month"} ELSE {"product_id", "review_month"}

StatusDomain == {Delivered, Status(1, 1), Cancelled, Pending, Status(5, 1), Null}
\* order_month is NaT for an order whose order_date could not be parsed.
OrderMonthDomain == {Month(1), Month(2), Null}
RatingDomain == {Num(2), Num(5), Null}

\* An enriched table with no rows is handed to the aggregators.
InitAggregate ==
  /\ entity \in {"orders", "reviews"}
  /\ raw = EmptyTable
  /\ cats = NoCatalogs
  /\ pc = "input"
  /\ df = EmptyTable
  /\ err = NoError
  /\ log = <<>>
  /\ calls = 0
  /\ first = EmptyTable
  /\ caller = "none"
  /\ handed = EmptyTable
  /\ handedCleaned = FALSE
  /\ cleaned = EmptyTable
  /\ enr = [cols |-> AggColumns(entity), rows |-> <<>>]
  /\ enr0 = EmptyTable
  /\ agg = NoCall
  /\ aggCalls = 0
  /\ InitIdle

\* The enriched orders hold one more order. The month varies for the
\* orders in progress; the other orders are all of month 1, as no
\* aggregator reads the month of an order it has filtered out.
AddOrder ==
  /\ pc = "input"
  /\ entity = "orders"
  /\ enr.cols = AggColumns(entity)
  /\ Len(enr.rows) < MaxAggRows
  /\ \E st \in StatusDomain, m \in OrderMonthDomain :
       /\ StrLower(st) \notin InProgressStatus => m = Month(1)
       /\ enr' = [enr EXCEPT !.rows =
                    Append(@, Restrict([order_id |-> Num(Len(enr.rows) + 1),
                                        status |-> st,
                                        order_month |-> m,
                                        total_amount |-> Num(10 * (Len(enr.rows) + 1))],
                                       enr.cols))]
  /\ UNCHANGED <<entity, pc, enr0, agg, aggCalls>>
  /\ UNCHANGED <<cleanVars, enrichVars, runVars, excVars, ioVars>>

\* The enriched reviews hold one more review; the flags follow the rating
\* as _add_derived_columns sets them. Reviews arrive in date order: the
\* first one in month 1, the later ones in month 2.
AddReview ==
  /\ pc = "input"
  /\ entity = "reviews"
  /\ enr.cols = AggColumns(entity)
  /\ Len(enr.rows) < MaxAggRows
  /\ \E p \in 1..2, rt \in RatingDomain :
       enr' = [enr EXCEPT !.rows =
                 Append(@, Restrict([review_id |-> Num(Len(enr.rows) + 1),
                                     product_id |-> Num(p),
                                     product_name |-> Txt(p),
                                     rating |-> rt,
                                     is_positive |-> Bool(~IsNa(rt) /\ rt.v >= 4),
                                     is_negative |-> Bool(~IsNa(rt) /\ rt.v <= 2),
                                     review_month |->
                                       Month(IF enr.rows = <<>> THEN 1 ELSE 2)],
                                    enr.cols))]
  /\ UNCHANGED <<entity, pc, enr0, agg, aggCalls>>
  /\ UNCHANGED <<cleanVars, enrichVars, runVars, excVars, ioVars>>

\* The enriched table lacks a column the aggregators group or filter on
\* (tables of at most one row: the rows play no part in the failure).
DropAggColumn ==
  /\ pc = "input"
  /\ enr.cols = AggColumns(entity)
  /\ Len(enr.rows) <= 1
  /\ \E c \in GroupingColumns(entity) :
       enr' = [cols |-> enr.cols \ {c},
               rows |-> [i \in RowIdx(enr) |-> Restrict(enr.rows[i], enr.cols \ {c})]]
  /\ UNCHANGED <<entity, pc, enr0, agg, aggCalls>>
  /\ UNCHANGED <<cleanVars, enrichVars, runVars, excVars, ioVars>>

\* An aggregator that lowercases the status column of its argument in place
\* instead of comparing a lowercased copy.
InputAfter_LowersInPlace(op, t) ==
  IF "status" \in t.cols
  THEN [t EXCEPT !.rows = [i \in RowIdx(t) |->
                             [t.rows[i] EXCEPT !["status"] = StrLower(@)]]]
  ELSE t

\* The table an aggregator's argument holds after the call. No aggregator
\* assigns into its argument: status_funnel writes to the frame value_counts
\* returned, in_progress_backlog to a copy of the filtered rows, the others
\* only read.
InputAfter(op, t) == t

\* One aggregator is called on enr and returns r (or raises).
AggregatorCall(e, op, args, r) ==
  /\ pc \in {"input", "aggregated"}
  /\ entity = e
  /\ aggCalls < MaxAggCalls
  /\ aggCalls' = aggCalls + 1
  /\ enr0' = IF aggCalls = 0 THEN enr ELSE enr0
  /\ enr' = InputAfter(op, enr)
  /\ agg' = [op |-> op, args |-> args, out |-> r.df, err |-> r.err]
  /\ pc' = IF Raised(r) THEN "raised" ELSE "aggregated"
  /\ UNCHANGED entity
  /\ UNCHANGED <<cleanVars, enrichVars, runVars, excVars, ioVars>>

CallStatusFunnel ==
  \E r \in StatusFunnel(enr) : AggregatorCall("orders", "status_funnel", <<>>, r)
CallCancellationRate ==
  AggregatorCall("orders", "cancellation_rate", <<>>, CancellationRate(enr))
CallDeliveryRate ==
  AggregatorCall("orders", "delivery_rate", <<>>, DeliveryRate(enr))
CallInProgressBacklog ==
  AggregatorCall("orders", "in_progress_backlog", <<>>, InProgressBacklog(enr))
CallRatingOverview ==
  AggregatorCall("reviews", "rating_overview", <<>>, RatingOverview(enr))
CallRatingByProduct ==
  \E m \in 1..MaxMinReviews, n \in 0..MaxTopN :
    AggregatorCall("reviews", "rating_by_product", <<m, n>>, RatingByProduct(enr, m, n))
CallMonthlyReviewVolume ==
  AggregatorCall("reviews", "monthly_review_volume", <<>>, MonthlyReviewVolume(enr))

NextAggregate ==
  \/ AddOrder
  \/ AddReview
  \/ DropAggColumn
  \/ CallStatusFunnel
  \/ CallCancellationRate
  \/ CallDeliveryRate
  \/ CallInProgressBacklog
  \/ CallRatingOverview
  \/ CallRatingByProduct
  \/ CallMonthlyReviewVolume

SpecAggregate == InitAggregate /\ [][NextAggregate]_vars

\* ------------------------------------------------ enrichment runs
\* An enricher is exercised: by a test, by pipeline/transform.py or by
\* main.py.
InitEnrich ==
  /\ entity \in {"orders", "reviews"}
  /\ raw = [cols |-> Columns(entity), rows |-> <<>>]
  /\ cats = [n \in CatalogNames |->
               IF n \in CatalogsOf(entity)
               THEN [cols |-> CatalogColumns(n), rows |-> <<>>]
               ELSE EmptyTable]
  /\ InitCommon

\* The columns of the primary table that the joins and the average price
\* of enrich read.
EnrichInputColumns(e) ==
  IF e = "orders"
  THEN {"order_id", "customer_id", "promotion_id", "total_amount"}
  ELSE {"review_id", "product_id", "customer_id", "comment"}

\* One cell of the raw table, in a column enrich reads, holds another value
\* of its column's domain.
SetEnrichCell ==
  /\ pc = "input"
  /\ \E i \in RowIdx(raw), c \in raw.cols \cap EnrichInputColumns(entity) :
       \E v \in CellDomain(entity, c) \ {raw.rows[i][c]} :
         /\ raw.rows[i][c] = DefaultRow(entity, i)[c]
         /\ raw' = [raw EXCEPT !.rows[i][c] = v]
         /\ Edits(entity, raw') + CatalogEdits(cats) <= MaxEdits
  /\ UNCHANGED <<entity, cats, pc, df, err, log, calls, first>>
  /\ UNCHANGED enrichVars
  /\ UNCHANGED moreVars

\* Extraction delivers one more well-formed row of each catalog of the
\* entity: the catalogs are of one size.
AppendCatalogRow ==
  /\ pc = "input"
  /\ \A n \in CatalogsOf(entity) : Len(cats[n].rows) < MaxCatalogRows
  /\ cats' = [n \in CatalogNames |->
                IF n \in CatalogsOf(entity)
                THEN [cats[n] EXCEPT !.rows =
                        Append(@, DefaultCatalogRow(n, Len(cats[n].rows) + 1))]
                ELSE cats[n]]
  /\ UNCHANGED <<entity, raw, pc, df, err, log, calls, first>>
  /\ UNCHANGED enrichVars
  /\ UNCHANGED moreVars

\* One cell of a catalog holds another value of its column's domain.
SetCatalogCell ==
  /\ pc = "input"
  /\ \E n \in CatalogsOf(entity) :
       \E j \in RowIdx(cats[n]), c \in cats[n].cols :
         \E v \in CatalogCellDomain(n, c) \ {cats[n].rows[j][c]} :
           /\ cats[n].rows[j][c] = DefaultCatalogRow(n, j)[c]
           /\ cats' = [cats EXCEPT ![n].rows[j][c] = v]
           /\ Edits(entity, raw) + CatalogEdits(cats') <= MaxEdits
  /\ UNCHANGED <<entity, raw, pc, df, err, log, calls, first>>
  /\ UNCHANGED enrichVars
  /\ UNCHANGED moreVars

\* enricher.enrich(t, catalogs...): the enricher's own cleaner cleans the
\* table handed in, then the catalogs are validated and joined and the
\* derived columns added. An error of either part leaves enrich.
Enrich(t) ==
  /\ handed' = t
  /\ LET c == Clean(entity, t)
         r == EnrichCleaned(entity, c.df, cats)
     IN /\ cats' = CatalogsAfterEnrich(entity, Raised(c), cats)
        /\ IF Raised(c)
           THEN /\ pc' = "raised"
                /\ err' = c.err
                /\ cleaned' = cleaned
                /\ df' = df
           ELSE /\ cleaned' = c.df
                /\ IF Raised(r)
                   THEN /\ pc' = "raised"
                        /\ err' = r.err
                        /\ df' = df
                   ELSE /\ pc' = "enriched"
                        /\ err' = err
                        /\ df' = r.df

\* A test calls enricher.enrich(raw, catalogs...).
TestCallsEnrich ==
  /\ pc = "input"
  /\ caller' = "test"
  /\ handedCleaned' = FALSE
  /\ calls' = calls + 1
  /\ Enrich(raw)
  /\ raw' = ArgumentAfterClean(entity, raw)
  /\ UNCHANGED <<entity, log, first>>
  /\ UNCHANGED moreVars

\* pipeline/transform.py, _clean_and_enrich: the entity's cleaner cleans the
\* raw table, and the enricher is called with what it returns.
PipelineCleanAndEnrich ==
  /\ pc = "input"
  /\ caller' = "pipeline"
  /\ LET c == Clean(entity, raw)
     IN IF Raised(c)
        THEN /\ pc' = "raised"
             /\ err' = c.err
             /\ calls' = calls + 1
             /\ UNCHANGED <<cats, df, handed, handedCleaned, cleaned, first>>
        ELSE /\ first' = ArgumentAfterClean(entity, c.df)
             /\ handedCleaned' = TRUE
             /\ calls' = calls + 2
             /\ Enrich(c.df)
  /\ raw' = ArgumentAfterClean(entity, raw)
  /\ UNCHANGED <<entity, log>>
  /\ UNCHANGED moreVars

\* main.py, transform_stage: the enricher is built with the cleaner as an
\* argument, which its __init__(self) does not take.
MainBuildsEnricher ==
  /\ pc = "input"
  /\ caller' = "main"
  /\ pc' = "raised"
  /\ err' = Error("TypeError", {})
  /\ UNCHANGED <<entity, raw, cats, df, log, calls, first, handed, handedCleaned, cleaned>>
  /\ UNCHANGED moreVars

NextEnrich ==
  \/ AppendRow
  \/ SetEnrichCell
  \/ AppendCatalogRow
  \/ SetCatalogCell
  \/ TestCallsEnrich
  \/ PipelineCleanAndEnrich
  \/ MainBuildsEnricher

SpecEnrich == InitEnrich /\ [][NextEnrich]_vars

\* ------------------------------------- enrichment of varied tables
\* An enricher is exercised on a table whose rows vary in the columns the
\* derived columns are computed from, with one row in every catalog.
InitDerived ==
  /\ entity \in {"orders", "reviews"}
  /\ raw = [cols |-> Columns(entity), rows |-> <<>>]
  /\ cats = [n \in CatalogNames |->
               IF n \in CatalogsOf(entity)
               THEN [cols |-> CatalogColumns(n), rows |-> <<DefaultCatalogRow(n, 1)>>]
               ELSE EmptyTable]
  /\ InitCommon

\* The columns _add_derived_columns computes the flags and the length from.
DerivedInputColumns(e) ==
  IF e = "orders" THEN {"promotion_id", "shipping_cost", "discount_percent"}
  ELSE {"rating", "comment"}

\* The raw values of those columns: both sides of every threshold, a null,
\* an empty comment and a rating that is no number.
DerivedCellDomain(c) ==
  CASE c = "promotion_id" -> {Null, Num(1)}
    [] c = "shipping_cost" -> {Null, Num(0), Num(5)}
    [] c = "discount_percent" -> {Null, Num(19), Num(20), Num(21)}
    [] c = "rating" -> {Num(2), Num(3), Num(4), Bad}
    [] c = "comment" -> {Null, Txt(0), Txt(5)}

CatalogsComplete ==
  \A n \in CatalogsOf(entity) : cats[n].cols = CatalogColumns(n)

\* Extraction delivers one more row, well-formed but for the values of the
\* columns the derived columns are computed from.
AppendVariedRow ==
  /\ pc = "input"
  /\ CatalogsComplete
  /\ Len(raw.rows) < MaxRows
  /\ \E f \in [DerivedInputColumns(entity) ->
                 UNION {DerivedCellDomain(c) : c \in DerivedInputColumns(entity)}] :
       /\ \A c \in DOMAIN f : f[c] \in DerivedCellDomain(c)
       /\ raw' = [raw EXCEPT !.rows =
                    Append(@, [c \in raw.cols |->
                                 IF c \in DOMAIN f THEN f[c]
                                 ELSE DefaultRow(entity, Len(raw.rows) + 1)[c]])]
  /\ UNCHANGED <<entity, cats, pc, df, err, log, calls, first>>
  /\ UNCHANGED enrichVars
  /\ UNCHANGED moreVars

\* The columns the catalogs of the entity lack.
MissingCatalogColumns(cs) ==
  UNION {{n} \X (CatalogColumns(n) \ cs[n].cols) : n \in CatalogsOf(entity)}

\* A catalog was extracted without one of its columns.
DropCatalogColumn ==
  /\ pc = "input"
  /\ raw.rows = <<>>
  /\ Cardinality(MissingCatalogColumns(cats)) < MaxEdits
  /\ \E n \in CatalogsOf(entity) :
       \E c \in cats[n].cols :
         cats' = [cats EXCEPT ![n] =
                    [cols |-> @.cols \ {c},
                     rows |-> [j \in RowIdx(@) |-> Restrict(@.rows[j], @.cols \ {c})]]]
  /\ UNCHANGED <<entity, raw, pc, df, err, log, calls, first>>
  /\ UNCHANGED enrichVars
  /\ UNCHANGED moreVars

NextDerived ==
  \/ AppendVariedRow
  \/ DropCatalogColumn
  \/ TestCallsEnrich

SpecDerived == InitDerived /\ [][NextDerived]_vars

\* ------------------------------------------------------ ETL runs
\* The entities in the order _clean_and_enrich cleans and enriches them.
EntityOrder == <<"orders", "inventory", "reviews">>

\* The names of the results _aggregate returns, in the order of its dict.
ResultNames ==
  <<"top_spenders", "recurring_customers", "average_ticket", "top_products",
    "monthly_sales", "promotion_usage_rate", "status_funnel", "cancellation_rate",
    "delivery_rate", "backlog_in_progress", "inventory_health", "low_stock_items",
    "warehouse_utilization", "reviews_overview", "reviews_by_product",
    "reviews_monthly">>

Formats == {"parquet", "csv"}

\* The files one format's loaders save: the enriched tables, then the results.
FilesOf(fmt) ==
  [i \in 1..Len(EntityOrder) |-> <<fmt, "enriched", EntityOrder[i]>>] \o
  [i \in 1..Len(ResultNames) |-> <<fmt, "result", ResultNames[i]>>]

\* The files pipeline.load.run saves, in order: Parquet if enabled, then CSV
\* if enabled.
LoadPlan(formats) ==
  (IF "parquet" \in formats THEN FilesOf("parquet") ELSE <<>>) \o
  (IF "csv" \in formats THEN FilesOf("csv") ELSE <<>>)

\* A transform stage that goes on to the next entity when one raises.
StageAfterRaise_BestEffort(stage) == stage

\* The stage of the run after a step of it raised: no stage catches, the
\* exception leaves the stage's function and the run.
StageAfterRaise(stage) == "failed"

\* A run is configured with the enabled output formats (OUTPUT_FORMATS).
InitRun ==
  /\ entity = "orders"
  /\ raw = EmptyTable
  /\ cats = NoCatalogs
  /\ pc = "input"
  /\ df = EmptyTable
  /\ err = NoError
  /\ log = <<>>
  /\ calls = 0
  /\ first = EmptyTable
  /\ caller = "none"
  /\ handed = EmptyTable
  /\ handedCleaned = FALSE
  /\ cleaned = EmptyTable
  /\ enr = EmptyTable
  /\ enr0 = EmptyTable
  /\ agg = NoCall
  /\ aggCalls = 0
  /\ run \in {[NoRun EXCEPT !.formats = f] : f \in SUBSET Formats}
  /\ written = <<>>
  /\ excs = <<>>
  /\ logs = [l \in Loggers |-> <<>>]
  /\ ext = NoExtractor
  /\ ldr = NoLoader

runFrame == <<entity, pc, cleanVars, enrichVars, aggVars, excVars, ioVars>>

\* pipeline.transform.run is called with the extracted tables.
PipelineRunTransform ==
  /\ run.stage = "idle"
  /\ run' = [run EXCEPT !.stage = "transform"]
  /\ UNCHANGED <<written, runFrame>>

\* main.py: transform_stage builds OrdersEnricher(orders_cleaner), which
\* raises TypeError before any entity is cleaned.
MainTransformStage ==
  /\ run.stage = "idle"
  /\ run' = [run EXCEPT !.stage = "failed", !.raisedIn = EntityOrder[1]]
  /\ UNCHANGED <<written, runFrame>>

\* _clean_and_enrich: the next entity's clean and enrich return.
CleanAndEnrichEntity ==
  /\ run.stage = "transform"
  /\ run.pos < Len(EntityOrder)
  /\ run' = [run EXCEPT !.pos = @ + 1,
                        !.done = @ \cup {EntityOrder[run.pos + 1]},
                        !.stage = IF run.pos + 1 = Len(EntityOrder)
                                  THEN "aggregate" ELSE @]
  /\ UNCHANGED <<written, runFrame>>

\* _clean_and_enrich: the next entity's clean or enrich raises.
CleanOrEnrichRaises ==
  /\ run.stage = "transform"
  /\ run.pos < Len(EntityOrder)
  /\ run' = [run EXCEPT !.pos = @ + 1,
                        !.raisedIn = EntityOrder[run.pos + 1],
                        !.stage = IF StageAfterRaise(@) = "failed" THEN "failed"
                                  ELSE IF run.pos + 1 = Len(EntityOrder)
                                  THEN "aggregate" ELSE @]
  /\ UNCHANGED <<written, runFrame>>

\* _aggregate returns the results computed on the enriched tables.
AggregateReturns ==
  /\ run.stage = "aggregate"
  /\ run' = [run EXCEPT !.results = TRUE, !.stage = "load"]
  /\ UNCHANGED <<written, runFrame>>

\* One of the aggregators raises.
AggregateRaises ==
  /\ run.stage = "aggregate"
  /\ run' = [run EXCEPT !.raisedIn = "aggregate", !.stage = StageAfterRaise(@)]
  /\ UNCHANGED <<written, runFrame>>

\* pipeline.load.run: the next file of the plan is saved.
SaveFile ==
  /\ run.stage = "load"
  /\ Len(written) < Len(LoadPlan(run.formats))
  /\ written' = Append(written, LoadPlan(run.formats)[Len(written) + 1])
  /\ UNCHANGED <<run, runFrame>>

\* pipeline.load.run: saving the next file raises (to_parquet or to_csv
\* fails); save logs and re-raises, load.run does not catch.
SaveRaises ==
  /\ run.stage = "load"
  /\ Len(written) < Len(LoadPlan(run.formats))
  /\ run' = [run EXCEPT !.raisedIn = "load", !.stage = StageAfterRaise(@)]
  /\ UNCHANGED <<written, runFrame>>

\* pipeline.load.run returns once every file is saved.
LoadReturns ==
  /\ run.stage = "load"
  /\ Len(written) = Len(LoadPlan(run.formats))
  /\ run' = [run EXCEPT !.stage = "completed"]
  /\ UNCHANGED <<written, runFrame>>

NextRun ==
  \/ PipelineRunTransform
  \/ MainTransformStage
  \/ CleanAndEnrichEntity
  \/ CleanOrEnrichRaises
  \/ AggregateReturns
  \/ AggregateRaises
  \/ SaveFile
  \/ SaveRaises
  \/ LoadReturns

SpecRun == InitRun /\ [][NextRun]_vars

\* ------------------------------------------------------ ETLError
Messages == {"m1", "m2"}
LogLevels == {"WARNING", "ERROR", "CRITICAL"}
ErrorKinds == {"ETLError", "MissingRequiredColumnsError", "TargetNotFoundError"}

\* log_level when the constructor is called without one: logging.ERROR.
DefaultLogLevel == "ERROR"

\* An ETLError whose constructor logs nothing.
LoggedAtInit_Nothing(message, log_level) == <<>>

\* What ETLError.__init__ sends to its logger: logger.log(log_level, message).
LoggedAtInit(message, log_level) == <<[level |-> log_level, msg |-> message]>>

\* The object ETLError.__init__(message, logger, log_level) leaves: its
\* message attribute is set from the argument; passed, logger and level
\* record the arguments of the call, raised whether it has been raised.
ETLErrorInit(kind, message, logger, log_level) ==
  [kind |-> kind, message |-> message, passed |-> message, logger |-> logger,
   level |-> log_level, raised |-> FALSE]

InitErrors ==
  /\ entity = "orders"
  /\ raw = EmptyTable
  /\ cats = NoCatalogs
  /\ InitCommon

errFrame == <<entity, pc, cleanVars, enrichVars, aggVars, runVars, ioVars>>

\* An error of the hierarchy is constructed with an explicit level; the
\* subclasses hand their arguments to ETLError.__init__.
ConstructError ==
  /\ Len(excs) < MaxErrors
  /\ \E k \in ErrorKinds, m \in Messages, l \in Loggers, lv \in LogLevels :
       /\ excs' = Append(excs, ETLErrorInit(k, m, l, lv))
       /\ logs' = [logs EXCEPT ![l] = @ \o LoggedAtInit(m, lv)]
  /\ UNCHANGED errFrame

\* An error is constructed without a level.
ConstructErrorDefaultLevel ==
  /\ Len(excs) < MaxErrors
  /\ \E k \in ErrorKinds, m \in Messages, l \in Loggers :
       /\ excs' = Append(excs, ETLErrorInit(k, m, l, DefaultLogLevel))
       /\ logs' = [logs EXCEPT ![l] = @ \o LoggedAtInit(m, DefaultLogLevel)]
  /\ UNCHANGED errFrame

\* A constructed error is raised and propagates to the caller.
RaiseError ==
  /\ \E i \in DOMAIN excs :
       /\ ~excs[i].raised
       /\ excs' = [excs EXCEPT ![i].raised = TRUE]
  /\ UNCHANGED logs
  /\ UNCHANGED errFrame

NextErrors ==
  \/ ConstructError
  \/ ConstructErrorDefaultLevel
  \/ RaiseError

SpecErrors == InitErrors /\ [][NextErrors]_vars

\* ===================================================================
\* Properties of the cleaners (specification Spec)
\* ===================================================================
Finished == pc \in {"returned", "raised"}

\* Columns the entity declares non-negative.
NonNegativeColumns(e) ==
  IF e = "inventory" THEN {"quantity", "min_stock_level", "max_stock_level"}
  ELSE {"rating", "helpful_votes"}

\* Columns handle_nulls of the entity validates as null-intolerant.
NullIntolerantColumns(e) ==
  IF e = "inventory" THEN {"inventory_id", "product_id", "warehouse_id"}
  ELSE {"review_id", "product_id", "customer_id", "rating", "created_at"}

IsNegative(c) == c.k \in {"num", "str"} /\ c.v < 0

\* C1: whenever clean(df) returns a table, its primary-key column
\* (inventory_id / review_id) holds no null and no value in two rows.
C1_CleanedKeyNonNullUnique ==
  pc = "returned" =>
    LET key == KeyColumn(entity)
    IN /\ \A i \in RowIdx(df) : ~IsNa(df.rows[i][key])
       /\ \A i, j \in RowIdx(df) : i # j => df.rows[i][key] # df.rows[j][key]

\* C1 witness: a first clean call returned a non-empty table after
\* handle_duplicates removed a row with a repeated key.
C1_Witness ==
  /\ pc = "returned"
  /\ calls = 1
  /\ Len(df.rows) >= 1
  /\ Len(df.rows) < Len(raw.rows)

\* C2: a null in the primary-key column of the input makes clean raise
\* NullConstraintError naming that column; once handle_nulls has run the
\* call never continues and never returns a table.
C2_NullKeyRaises ==
  (calls >= 1 /\ log # <<>> /\ HasNull(Arg, KeyColumn(entity))) =>
    /\ pc = "raised"
    /\ err.type = "NullConstraintError"
    /\ KeyColumn(entity) \in err.cols

\* C2 witness: clean raised on a raw table that has a null key and another
\* row with a key.
C2_Witness ==
  /\ pc = "raised"
  /\ calls = 1
  /\ HasNull(raw, KeyColumn(entity))
  /\ \E i \in RowIdx(raw) : ~IsNa(raw.rows[i][KeyColumn(entity)])
  /\ err.type = "NullConstraintError"

\* C3: handle_duplicates returns, for every key value of its input, exactly
\* one row, the last input row with that key; rows whose key occurs once are
\* kept, and no other row is removed or added.
C3_DedupKeepsLast ==
  \A n \in 1..Len(log) :
    log[n].phase = "handle_duplicates" =>
      LET key == KeyColumn(entity)
          src == log[n].in.rows
          res == log[n].out.rows
          Occ(k) == {i \in 1..Len(src) : src[i][key] = k}
          LastOf(k) == CHOOSE i \in Occ(k) : \A j \in Occ(k) : j <= i
      IN /\ \A i \in 1..Len(src) :
              /\ Cardinality({m \in 1..Len(res) : res[m][key] = src[i][key]}) = 1
              /\ \E m \in 1..Len(res) : res[m] = src[LastOf(src[i][key])]
              /\ Cardinality(Occ(src[i][key])) = 1 => \E m \in 1..Len(res) : res[m] = src[i]
         /\ \A m \in 1..Len(res) : \E i \in 1..Len(src) : res[m] = src[i]
         /\ Len(res) = Cardinality({src[i][key] : i \in 1..Len(src)})

\* C3 witness: handle_duplicates removed a row that differs from the row it
\* kept.
C3_Witness ==
  \E n \in 1..Len(log) :
    /\ log[n].phase = "handle_duplicates"
    /\ Len(log[n].out.rows) = 1
    /\ Len(log[n].in.rows) = 2
    /\ log[n].in.rows[1] # log[n].in.rows[2]

\* C4: clean(df) runs handle_nulls, handle_duplicates, convert_types and
\* validate_cleaned_data once each, in that order, each on the table the
\* previous phase returned; after a phase raises no phase runs.
C4_PhasesInOrder ==
  calls >= 1 =>
    LET order == <<"handle_nulls", "handle_duplicates", "convert_types",
                   "validate_cleaned_data">>
    IN /\ Len(log) <= 4
       /\ \A n \in 1..Len(log) :
            /\ log[n].phase = order[n]
            /\ log[n].in = IF n = 1 THEN Arg ELSE log[n - 1].out
            /\ n < Len(log) => log[n].err = NoError
       /\ pc = "returned" => Len(log) = 4 /\ log[4].err = NoError /\ df = log[4].out
       /\ pc = "raised" => log # <<>> /\ log[Len(log)].err = err /\ err # NoError
       /\ pc = "cleaning" => Len(log) < 4

\* C4 witness: a clean call ran all four phases, and handle_nulls,
\* handle_duplicates and convert_types each changed the table.
C4_Witness ==
  /\ pc = "returned"
  /\ calls = 1
  /\ Len(log) = 4
  /\ \A n \in 1..3 : log[n].out # log[n].in

\* A negative value of the table reaches validate_cleaned_data: no
\* null-intolerant column has a null, the row holding it is the last of its
\* key, and convert_types finds every column it reads.
NegativeSurvives(e, t) ==
  /\ Columns(e) \subseteq t.cols
  /\ \A c \in NullIntolerantColumns(e) : ~HasNull(t, c)
  /\ \E i \in RowIdx(t) :
       /\ \A j \in RowIdx(t) : j > i => t.rows[j][KeyColumn(e)] # t.rows[i][KeyColumn(e)]
       /\ \E c \in NonNegativeColumns(e) : IsNegative(t.rows[i][c])

NoNegativeValues(e, t) ==
  \A c \in NonNegativeColumns(e) : \A i \in RowIdx(t) :
    t.rows[i][c].k \in {"null", "num"} /\ ~IsNegative(t.rows[i][c])

SatisfiesSchema(e, t) ==
  /\ Columns(e) \subseteq t.cols
  /\ \A i \in RowIdx(t) : \A c \in t.cols : t.rows[i][c].k # "bad"

\* C6: for a table that satisfies the entity's schema, clean(clean(df))
\* does not raise and returns a table equal to clean(df).
C6_CleanIdempotent ==
  (calls = 2 /\ SatisfiesSchema(entity, raw)) =>
    /\ pc # "raised"
    /\ pc = "returned" => df = first

\* C6 witness: the second clean call returned, on a schema-conformant raw
\* table that the first call changed.
C6_Witness ==
  /\ calls = 2
  /\ pc = "returned"
  /\ SatisfiesSchema(entity, raw)
  /\ first # raw
  /\ Len(first.rows) >= 1

\* Without the schema precondition clean is not idempotent (an unparseable
\* quantity is coerced to NaN by the first call and filled with 0 by the
\* second; an unparseable rating makes the second call raise).
CleanIdempotentOnAnyTable ==
  calls = 2 => (pc # "raised" /\ (pc = "returned" => df = first))

\* ---------------------------------------------------------- enrichment
\* The joins of the entity's enricher: foreign key, catalog, joined columns.
JoinsOf(e) ==
  IF e = "orders"
  THEN {[on |-> "customer_id", catalog |-> "customers",
         cols |-> {"segment", "registration_date", "city", "country", "email"}],
        [on |-> "promotion_id", catalog |-> "promotions",
         cols |-> {"promotion_type", "discount_value", "start_date", "end_date",
                   "is_active"}]}
  ELSE {[on |-> "product_id", catalog |-> "products",
         cols |-> {"product_name", "category_id", "brand_id"}],
        [on |-> "customer_id", catalog |-> "customers",
         cols |-> {"segment", "city", "country"}]}

UniqueKey(t, c) ==
  \A i, j \in RowIdx(t) : i # j => t.rows[i][c] # t.rows[j][c]

CatalogKeysUnique ==
  \A j \in JoinsOf(entity) : UniqueKey(cats[j.catalog], j.on)

\* The catalog has no row whose key equals the foreign key.
Unmatched(fk, catalog, on) ==
  \A n \in RowIdx(catalog) : catalog.rows[n][on] # fk

\* The enriched row r is the primary row base with columns added.
Extends(r, base) == \A c \in DOMAIN base : r[c] = base[c]

\* C7 as stated: whenever enrich returns, the enriched table has as many
\* rows as the cleaned primary table.
C7_Original ==
  pc = "enriched" => Len(df.rows) = Len(cleaned.rows)

\* C7: whenever enrich returns and the join key of each catalog it joins is
\* unique in that catalog, the enriched table has as many rows as the
\* cleaned primary table.
C7_RowCountPreserved ==
  (pc = "enriched" /\ CatalogKeysUnique) => Len(df.rows) = Len(cleaned.rows)

\* C7 witness: enrich returned on two cleaned rows and catalogs with unique
\* keys, one row matched in a catalog and one row without a match.
C7_Witness ==
  /\ pc = "enriched"
  /\ CatalogKeysUnique
  /\ Len(cleaned.rows) = 2
  /\ \E j \in JoinsOf(entity) :
       /\ Len(cats[j.catalog].rows) >= 1
       /\ \E i \in RowIdx(cleaned) :
            Unmatched(cleaned.rows[i][j.on], cats[j.catalog], j.on)
       /\ \E i \in RowIdx(cleaned) :
            ~Unmatched(cleaned.rows[i][j.on], cats[j.catalog], j.on)

\* C8: a primary row whose foreign key has no matching key in the catalog
\* is still in the enriched table, and every column joined from that
\* catalog is null on it.
C8_UnmatchedRowsKept ==
  pc = "enriched" =>
    \A j \in JoinsOf(entity) : \A i \in RowIdx(cleaned) :
      Unmatched(cleaned.rows[i][j.on], cats[j.catalog], j.on) =>
        /\ \E m \in RowIdx(df) : Extends(df.rows[m], cleaned.rows[i])
        /\ \A m \in RowIdx(df) :
             Extends(df.rows[m], cleaned.rows[i]) =>
               \A c \in j.cols : IsNa(df.rows[m][c])

\* C8 witness: enrich returned; one row has a foreign key that is present
\* but absent from a non-empty catalog, and another row got non-null
\* columns from that catalog.
C8_Witness ==
  /\ pc = "enriched"
  /\ \E j \in JoinsOf(entity) :
       /\ Len(cats[j.catalog].rows) >= 1
       /\ \E i \in RowIdx(cleaned) :
            /\ ~IsNa(cleaned.rows[i][j.on])
            /\ Unmatched(cleaned.rows[i][j.on], cats[j.catalog], j.on)
       /\ \E m \in RowIdx(df) : \A c \in j.cols : ~IsNa(df.rows[m][c])

\* a = total / n, for a price a kept as a fraction.
EqualsQuotient(a, total, n) ==
  IF total.k = "num"
  THEN a.k = "ratio" /\ a.v[1] * n = total.v * a.v[2]
  ELSE IsNa(a)

IsZero(a) == a.k = "ratio" /\ a.v[1] = 0 /\ a.v[2] # 0

\* C9 as stated: on every enriched order, avg_item_price is
\* total_amount / items_count when the summed quantity is positive, and 0
\* when it is 0 or the order has no items.
C9_Original ==
  (pc = "enriched" /\ entity = "orders") =>
    \A m \in RowIdx(df) :
      LET r == df.rows[m]
      IN IF r["items_count"].k = "num" /\ r["items_count"].v > 0
         THEN EqualsQuotient(r["avg_item_price"], r["total_amount"], r["items_count"].v)
         ELSE IsZero(r["avg_item_price"])

\* C9: on every enriched order, avg_item_price is total_amount / items_count
\* when total_amount is not null and the summed quantity is positive, and
\* it is 0, never null, when the summed quantity is 0, the order has no
\* items, or total_amount is null.
C9_AvgItemPrice ==
  (pc = "enriched" /\ entity = "orders") =>
    \A m \in RowIdx(df) :
      LET r == df.rows[m]
      IN IF /\ r["items_count"].k = "num"
            /\ r["items_count"].v > 0
            /\ ~IsNa(r["total_amount"])
         THEN EqualsQuotient(r["avg_item_price"], r["total_amount"], r["items_count"].v)
         ELSE IsZero(r["avg_item_price"])

\* C9 witness: an enriched order with items and a price that is not 0,
\* next to an order whose items sum to 0 or that has none.
C9_Witness ==
  /\ pc = "enriched"
  /\ entity = "orders"
  /\ \E m \in RowIdx(df) :
       /\ df.rows[m]["items_count"].k = "num"
       /\ df.rows[m]["items_count"].v > 0
       /\ df.rows[m]["total_amount"].k = "num"
       /\ ~IsZero(df.rows[m]["avg_item_price"])
  /\ \E m \in RowIdx(df) :
       \/ IsNa(df.rows[m]["items_count"])
       \/ df.rows[m]["items_count"].v = 0

\* C10: in a run of the pipeline that reaches an enricher, the table handed
\* to the enricher is the raw table, and the primary table has been cleaned
\* once, by the enricher.
C10_EnricherCleansRawOnce ==
  (caller = "pipeline" /\ handed # EmptyTable) =>
    /\ ~handedCleaned
    /\ handed = raw
    /\ calls = 1

\* =============================================== aggregator properties
\* Whether an aggregator returned a number (a rate) and not a table.
IsScalar(out) == "k" \in DOMAIN out

ZeroCell(c) == (c.k = "num" /\ c.v = 0) \/ IsZero(c)

\* An empty table, or a result whose every value is zero.
EmptyOrZero(out) ==
  IF IsScalar(out) THEN ZeroCell(out)
  ELSE \A i \in RowIdx(out) : \A c \in out.cols : ZeroCell(out.rows[i][c])

\* The grouped or filtered columns an aggregator operation reads.
GroupedColumnsOf(op) ==
  CASE op \in {"status_funnel", "cancellation_rate", "delivery_rate"} -> {"status"}
    [] op = "in_progress_backlog" -> {"status", "order_month"}
    [] op = "rating_by_product" -> {"product_id"}
    [] op = "monthly_review_volume" -> {"review_month"}
    [] OTHER -> {}

\* The error kinds of the SchemaValidationError family.
SchemaValidationFamily ==
  {"MissingRequiredColumnsError", "UnexpectedColumnsError", "DataTypeMismatchError",
   "NullConstraintError", "RangeValidationError", "DuplicateKeyError"}

\* C11: an aggregator operation called on an enriched table with all its
\* columns and no rows returns without raising, and what it returns is an
\* empty table or is zero-valued (the rates are 0, not NaN).
C11_EmptyInputEmptyOrZero ==
  (agg.op # "none" /\ enr.rows = <<>> /\ enr.cols = AggColumns(entity)) =>
    /\ agg.err = NoError
    /\ EmptyOrZero(agg.out)

\* C12: an aggregator operation called on a table that lacks a column it
\* groups or filters on fails with an error of the SchemaValidationError
\* family.
C12_MissingColumnSchemaError ==
  (agg.op # "none" /\ ~(GroupedColumnsOf(agg.op) \subseteq enr.cols)) =>
    agg.err.type \in SchemaValidationFamily

\* The number of reviews of product p in the table t.
ReviewsOf(t, p) == Cardinality({i \in RowIdx(t) : t.rows[i]["product_id"] = p})

\* C13: every row rating_by_product returns has review_count >= min_reviews,
\* and its product has at least min_reviews reviews in the input.
C13_MinReviewsRespected ==
  (agg.op = "rating_by_product" /\ agg.err = NoError) =>
    \A i \in RowIdx(agg.out) :
      /\ agg.out.rows[i]["review_count"].v >= agg.args[1]
      /\ ReviewsOf(enr, agg.out.rows[i]["product_id"]) >= agg.args[1]

\* C13 witness: rating_by_product with min_reviews 2 and room for two rows
\* returned a product and left out one that has a single review.
C13_Witness ==
  /\ agg.op = "rating_by_product"
  /\ agg.err = NoError
  /\ agg.args = <<2, 2>>
  /\ Len(agg.out.rows) = 1
  /\ \E p \in ColumnValues(enr, "product_id") : ReviewsOf(enr, p) = 1

\* C14: after any sequence of aggregator calls on an enriched table, the
\* table holds the columns, rows and values it held before the first call.
C14_InputNotModified ==
  aggCalls > 0 => enr = enr0

\* C14 witness: two aggregator calls were made on a table with rows, one of
\* them in a status written in capitals, and the last call returned.
C14_Witness ==
  /\ aggCalls = 2
  /\ agg.err = NoError
  /\ entity = "orders"
  /\ \E i \in RowIdx(enr) : enr.rows[i]["status"] = Status(1, 1)

\* =================================== frame of clean and enrich (SpecEnrich)
\* C15: a call of clean or enrich, whether it returns or raises, leaves the
\* raw primary table and every catalog passed in as they were before the
\* call, and the table clean returns is not the table it was passed.
C15_ArgumentsNotModified ==
  [][(pc = "input" /\ pc' # "input") =>
       /\ raw' = raw
       /\ cats' = cats
       /\ ~CleanReturnsArgument]_vars

\* C15 witness: enrich returned for orders whose order_date was a string
\* that clean converted, with a customers catalog whose registration_date
\* was a string that the validation converted.
C15_Witness ==
  /\ pc = "enriched"
  /\ entity = "orders"
  /\ \E i \in RowIdx(raw) : raw.rows[i]["order_date"].k = "str"
  /\ \E i \in RowIdx(cleaned) : cleaned.rows[i]["order_date"].k = "ts"
  /\ \E j \in RowIdx(cats.customers) :
       /\ cats.customers.rows[j]["registration_date"].k = "str"
       /\ OrdersValidateCustomers(cats.customers).df.rows[j]["registration_date"].k = "ts"

\* ============================================ properties of runs (SpecRun)
\* The entities that _clean_and_enrich handles before the entity e.
EntitiesBefore(e) ==
  {EntityOrder[i] : i \in {j \in DOMAIN EntityOrder :
                             \E k \in DOMAIN EntityOrder : k > j /\ EntityOrder[k] = e}}

AllEntities == {EntityOrder[i] : i \in DOMAIN EntityOrder}

\* C16 as stated: in a run where the cleaning or enrichment of one entity
\* raised, the other two entities are cleaned and enriched.
C16_Original ==
  (run.stage = "failed" /\ run.raisedIn \in AllEntities) =>
    run.done = AllEntities \ {run.raisedIn}

\* C16, amended: when the cleaning or enrichment of an entity raises, the run
\* fails there: the entities handled before it are cleaned and enriched,
\* the ones after it are not, and nothing is aggregated or saved.
C16_FailureStopsRun ==
  run.raisedIn \in AllEntities =>
    /\ run.stage = "failed"
    /\ run.done = EntitiesBefore(run.raisedIn)
    /\ ~run.results
    /\ written = <<>>

\* C16 witness: the inventory step raised after the orders were cleaned and
\* enriched.
C16_Witness ==
  /\ run.stage = "failed"
  /\ run.raisedIn = "inventory"
  /\ run.done = {"orders"}

\* C17: a stage that failed has produced none of its output: when the load
\* stage raised while saving a file, no file of the stage is written; and
\* a file is written only if every entity was cleaned and enriched and the
\* results were aggregated.
C17_StageAllOrNothing ==
  /\ (run.stage = "failed" /\ run.raisedIn = "load") => written = <<>>
  /\ written # <<>> => (run.done = AllEntities /\ run.results)

\* ==================================== properties of errors (SpecErrors)
\* The errors constructed for the logger l with message m and level lv.
ErrorsWith(l, m, lv) ==
  {i \in DOMAIN excs : excs[i].logger = l /\ excs[i].passed = m /\ excs[i].level = lv}

\* The records the logger l received with message m and level lv.
RecordsWith(l, m, lv) ==
  {j \in DOMAIN logs[l] : logs[l][j] = [level |-> lv, msg |-> m]}

\* C18: every constructed error, raised yet or not, has its message
\* attribute equal to the message passed in, and its logger holds one
\* record with that message and level per such error.
C18_LoggedAtConstruction ==
  /\ \A i \in DOMAIN excs : excs[i].message = excs[i].passed
  /\ \A l \in Loggers, m \in Messages, lv \in LogLevels :
       Cardinality(RecordsWith(l, m, lv)) = Cardinality(ErrorsWith(l, m, lv))

\* C18 witness: an error constructed with level WARNING for load_logger has
\* been raised, and a second error is constructed and not raised yet.
C18_Witness ==
  /\ Len(excs) = 2
  /\ excs[1].raised
  /\ excs[1].logger = "load_logger"
  /\ excs[1].level = "WARNING"
  /\ ~excs[2].raised
  /\ excs[2].kind # "ETLError"

\* ================================ rankings and funnels (SpecAggregate)
\* The reviews of product p in t that carry a rating.
RatedOf(t, p) ==
  {i \in RowIdx(t) : t.rows[i]["product_id"] = p /\ t.rows[i]["rating"].k = "num"}

RatingSum(t, p) == SumColumn(GroupRows(t, "product_id", p).rows, "rating", 1)

PositiveOf(t, p) ==
  {i \in RowIdx(t) : t.rows[i]["product_id"] = p /\ t.rows[i]["is_positive"].v = 1}

\* Product p and product q have the same mean rating (or neither has one).
SameMean(t, p, q) ==
  LET np == Cardinality(RatedOf(t, p))
      nq == Cardinality(RatedOf(t, q))
  IN \/ np = 0 /\ nq = 0
     \/ np > 0 /\ nq > 0 /\ RatingSum(t, p) * nq = RatingSum(t, q) * np

\* Product p comes strictly before q in the ranking: a higher mean rating
\* (a product without any rating last), or the same and more reviews.
Outranks(t, p, q) ==
  LET np == Cardinality(RatedOf(t, p))
      nq == Cardinality(RatedOf(t, q))
  IN \/ np > 0 /\ nq = 0
     \/ np > 0 /\ nq > 0 /\ RatingSum(t, p) * nq > RatingSum(t, q) * np
     \/ SameMean(t, p, q) /\ ReviewsOf(t, p) > ReviewsOf(t, q)

\* The products of t with at least m reviews.
Eligible(t, m) == {p \in ColumnValues(t, "product_id") : ReviewsOf(t, p) >= m}

\* C19: rating_by_product returns min(top_n, eligible products) rows, each
\* an eligible product, never a row before one that outranks it, no
\* eligible product left out that outranks a returned one, and each row's
\* average_rating and positive_rate are the means over the product's reviews.
C19_TopRankedProducts ==
  (agg.op = "rating_by_product" /\ agg.err = NoError) =>
    LET out == agg.out.rows
        m == agg.args[1]
        n == agg.args[2]
        el == Eligible(enr, m)
        ret == {out[i]["product_id"] : i \in DOMAIN out}
    IN /\ Len(out) = IF n < Cardinality(el) THEN n ELSE Cardinality(el)
       /\ Cardinality(ret) = Len(out)
       /\ ret \subseteq el
       /\ \A i, j \in DOMAIN out :
            i < j => ~Outranks(enr, out[j]["product_id"], out[i]["product_id"])
       /\ \A q \in el \ ret : \A r \in ret : ~Outranks(enr, q, r)
       /\ \A i \in DOMAIN out :
            LET pr == out[i]["product_id"]
                k == Cardinality(RatedOf(enr, pr))
            IN /\ IF k = 0 THEN IsNa(out[i]["average_rating"])
                  ELSE /\ out[i]["average_rating"].k = "ratio"
                       /\ out[i]["average_rating"].v[1] * k =
                            RatingSum(enr, pr) * out[i]["average_rating"].v[2]
               /\ out[i]["positive_rate"].v[1] * ReviewsOf(enr, pr) =
                    Cardinality(PositiveOf(enr, pr)) * out[i]["positive_rate"].v[2]
               /\ out[i]["review_count"].v = ReviewsOf(enr, pr)

\* C19 witness: with top_n 1, of two eligible products with the same mean
\* rating the one with more reviews was returned, and it is not the one
\* with the smaller product_id.
C19_Witness ==
  /\ agg.op = "rating_by_product"
  /\ agg.err = NoError
  /\ agg.args = <<1, 1>>
  /\ Len(agg.out.rows) = 1
  /\ agg.out.rows[1]["product_id"] = Num(2)
  /\ ReviewsOf(enr, Num(2)) = 2
  /\ ReviewsOf(enr, Num(1)) = 1
  /\ SameMean(enr, Num(1), Num(2))
  /\ RatedOf(enr, Num(1)) # {}

RECURSIVE SumField(_, _, _)
\* The sum of the numerators (or numbers) of field c over the rows from i on.
SumField(rows, c, i) ==
  IF i > Len(rows) THEN 0
  ELSE (IF rows[i][c].k = "ratio" THEN rows[i][c].v[1] ELSE rows[i][c].v)
       + SumField(rows, c, i + 1)

\* The rows of t whose status is v.
WithStatus(t, v) == {i \in RowIdx(t) : t.rows[i]["status"] = v}

\* What C20 states for every table: one row per status value, with its
\* count and share, by descending count.
FunnelRowsRight(t, out) ==
  LET known == {i \in RowIdx(t) : ~IsNa(t.rows[i]["status"])}
  IN /\ {out[i]["status"] : i \in DOMAIN out} = ColumnValues(t, "status")
     /\ Len(out) = Cardinality(ColumnValues(t, "status"))
     /\ \A i \in DOMAIN out :
          /\ out[i]["orders"].v = Cardinality(WithStatus(t, out[i]["status"]))
          /\ out[i]["share"].v = <<out[i]["orders"].v, Cardinality(known)>>
     /\ \A i, j \in DOMAIN out : i < j => out[i]["orders"].v >= out[j]["orders"].v

\* The shares of out add up to 1.
SharesSumToOne(out) ==
  /\ out # <<>>
  /\ \A i \in DOMAIN out : out[i]["share"].v[2] = SumField(out, "share", 1)

\* C20 as stated: for every non-empty table the orders add up to the
\* number of input rows and the shares to 1.
C20_Original ==
  (agg.op = "status_funnel" /\ agg.err = NoError) =>
    /\ FunnelRowsRight(enr, agg.out.rows)
    /\ enr.rows # <<>> =>
         /\ SumField(agg.out.rows, "orders", 1) = Len(enr.rows)
         /\ SharesSumToOne(agg.out.rows)

\* C20, amended: status_funnel returns one row per distinct non-null status
\* with its count and its share of the orders that have a status, by
\* descending count; the orders add up to the number of rows with a
\* status, which is the number of input rows when no status is null, and
\* the shares add up to 1 when some row has a status.
C20_StatusFunnel ==
  (agg.op = "status_funnel" /\ agg.err = NoError) =>
    LET known == {i \in RowIdx(enr) : ~IsNa(enr.rows[i]["status"])}
    IN /\ FunnelRowsRight(enr, agg.out.rows)
       /\ SumField(agg.out.rows, "orders", 1) = Cardinality(known)
       /\ known # {} => SharesSumToOne(agg.out.rows)
       /\ Cardinality(known) = Len(enr.rows) =>
            SumField(agg.out.rows, "orders", 1) = Len(enr.rows)

\* C20 witness: status_funnel returned two rows for three orders without a
\* null status, two of them in one status, and statuses that differ only
\* in letter case counted apart.
C20_Witness ==
  /\ agg.op = "status_funnel"
  /\ agg.err = NoError
  /\ Len(enr.rows) = 3
  /\ \A i \in RowIdx(enr) : ~IsNa(enr.rows[i]["status"])
  /\ Len(agg.out.rows) = 2
  /\ agg.out.rows[1]["orders"].v = 2
  /\ {agg.out.rows[i]["status"] : i \in DOMAIN agg.out.rows} = {Delivered, Status(1, 1)}

\* ------------------------------------------- extractors and loaders
\* The tables a MockExtractor is given; without one it extracts "default".
MockTables == {"sample", "empty"}

\* An extractor that never records the time of the extraction.
UpdateExtractionTimestamp_Never(x, now) == x

\* _update_extraction_timestamp: datetime.now().isoformat(); the time is
\* the number of the extraction.
UpdateExtractionTimestamp(x, now) == [x EXCEPT !.timestamp = Ts(now)]

\* The call op on extractor x, before it returns or raises.
ExtractorCall(x, op) ==
  [NoExtractorCall EXCEPT !.op = op, !.data_before = x.data,
                          !.timestamp_before = x.timestamp]

\* MockExtractor.extract: raises when the extraction fails; else stores
\* the data, then records the time, and returns the data.
MockExtract(x) ==
  IF x.should_fail
  THEN [x EXCEPT !.last = [ExtractorCall(x, "extract") EXCEPT
                             !.raised = "ValueError",
                             !.message = "Mock extraction failed"]]
  ELSE LET d == IF x.mock_data # "None" THEN x.mock_data ELSE "default"
           y == UpdateExtractionTimestamp([x EXCEPT !.data = d], x.extracted + 1)
       IN [y EXCEPT !.extracted = @ + 1,
                    !.last = [ExtractorCall(x, "extract") EXCEPT !.value = d]]

NoDataLoaded == "No hay datos cargados. Ejecuta extract() primero."

\* get_data: the data, or ValueError while there is none.
GetData(x) ==
  IF x.data = "None"
  THEN [x EXCEPT !.last = [ExtractorCall(x, "get_data") EXCEPT
                             !.raised = "ValueError", !.message = NoDataLoaded]]
  ELSE [x EXCEPT !.last = [ExtractorCall(x, "get_data") EXCEPT !.value = x.data]]

\* profile_data: ValueError while there is no data; else the profile is
\* added to the metadata and returned.
ProfileData(x) ==
  IF x.data = "None"
  THEN [x EXCEPT !.last = [ExtractorCall(x, "profile_data") EXCEPT
                             !.raised = "ValueError", !.message = NoDataLoaded]]
  ELSE [x EXCEPT !.profiled = TRUE,
                 !.last = [ExtractorCall(x, "profile_data") EXCEPT !.value = "profile"]]

\* ParquetLoader._validate_target_exists: what it raises for a target
\* directory that exists or not.
ValidateTargetExists(exists) == IF exists THEN "none" ELSE "FileNotFoundError"

\* ParquetLoader.__init__(target_path): the target is validated before
\* any attribute is set; a raise leaves no loader.
ParquetLoaderInit(l) ==
  LET r == ValidateTargetExists(l.dir)
  IN [l EXCEPT !.kind = "parquet", !.target_existed = l.dir,
               !.raised = r, !.created = (r = "none")]

\* CSVLoader.__init__(target_path), as its test has it: TargetNotFoundError
\* for a directory that does not exist.
CSVLoaderInit(l) ==
  LET r == IF l.dir THEN "none" ELSE "TargetNotFoundError"
  IN [l EXCEPT !.kind = "csv", !.target_existed = l.dir,
               !.raised = r, !.created = (r = "none")]

\* An extractor is constructed, with a table to extract or without, over
\* a source that fails or not; the target directory exists or not.
InitIO ==
  /\ entity = "orders"
  /\ raw = EmptyTable
  /\ cats = NoCatalogs
  /\ pc = "input"
  /\ df = EmptyTable
  /\ err = NoError
  /\ log = <<>>
  /\ calls = 0
  /\ first = EmptyTable
  /\ caller = "none"
  /\ handed = EmptyTable
  /\ handedCleaned = FALSE
  /\ cleaned = EmptyTable
  /\ enr = EmptyTable
  /\ enr0 = EmptyTable
  /\ agg = NoCall
  /\ aggCalls = 0
  /\ run = NoRun
  /\ written = <<>>
  /\ excs = <<>>
  /\ logs = [l \in Loggers |-> <<>>]
  /\ ext \in {BaseExtractorInit(d, f) : d \in MockTables \cup {"None"}, f \in BOOLEAN}
  /\ ldr \in {[NoLoader EXCEPT !.dir = b] : b \in BOOLEAN}

ioFrame == <<entity, pc, cleanVars, enrichVars, aggVars, runVars, excVars>>

CallExtract ==
  /\ ext.extracted < MaxExtracts
  /\ ext' = MockExtract(ext)
  /\ UNCHANGED <<ldr, ioFrame>>

CallGetData ==
  /\ ext' = GetData(ext)
  /\ UNCHANGED <<ldr, ioFrame>>

CallProfileData ==
  /\ ext' = ProfileData(ext)
  /\ UNCHANGED <<ldr, ioFrame>>

\* The source of the extractor becomes unavailable, or available again.
SourceChanges ==
  /\ ext' = [ext EXCEPT !.should_fail = ~@]
  /\ UNCHANGED <<ldr, ioFrame>>

\* The target directory is removed or created.
TargetChanges ==
  /\ ldr' = [ldr EXCEPT !.dir = ~@]
  /\ UNCHANGED <<ext, ioFrame>>

ConstructParquetLoader ==
  /\ ldr' = ParquetLoaderInit(ldr)
  /\ UNCHANGED <<ext, ioFrame>>

ConstructCSVLoader ==
  /\ ldr' = CSVLoaderInit(ldr)
  /\ UNCHANGED <<ext, ioFrame>>

NextIO ==
  \/ CallExtract
  \/ CallGetData
  \/ CallProfileData
  \/ SourceChanges
  \/ TargetChanges
  \/ ConstructParquetLoader
  \/ ConstructCSVLoader

SpecIO == InitIO /\ [][NextIO]_vars

\* ======================================= backlog (SpecAggregate)
\* The orders of t in progress: status pending, processing or shipped, in
\* any letter case.
InBacklog(t) ==
  {i \in RowIdx(t) : \E w \in 3..5 : t.rows[i]["status"].k = "cat" /\
                                     t.rows[i]["status"].v \div 2 = w}

RECURSIVE AmountOf(_, _, _)
\* The total_amount of the rows of t in I, from row i on.
AmountOf(t, I, i) ==
  IF i > Len(t.rows) THEN 0
  ELSE (IF i \in I /\ t.rows[i]["total_amount"].k = "num"
        THEN t.rows[i]["total_amount"].v ELSE 0) + AmountOf(t, I, i + 1)

\* One row per month of the orders of I, in chronological order, each with
\* the number and the total amount of the orders of I in that month.
BacklogRowsRight(t, I, out) ==
  LET months == {t.rows[i]["order_month"] : i \in {j \in I : ~IsNa(t.rows[j]["order_month"])}}
  IN /\ {out[k]["order_month"] : k \in DOMAIN out} = months
     /\ Len(out) = Cardinality(months)
     /\ \A k, l \in DOMAIN out : k < l => out[k]["order_month"].v < out[l]["order_month"].v
     /\ \A k \in DOMAIN out :
          LET J == {i \in I : t.rows[i]["order_month"] = out[k]["order_month"]}
          IN /\ out[k]["backlog_orders"] = Num(Cardinality(J))
             /\ out[k]["backlog_value"] = Num(AmountOf(t, J, 1))

\* C21 as stated: the backlog_orders add up to the number of orders in
\* progress in the input and the backlog_value to their total_amount.
C21_Original ==
  (agg.op = "in_progress_backlog" /\ agg.err = NoError) =>
    /\ BacklogRowsRight(enr, InBacklog(enr), agg.out.rows)
    /\ SumField(agg.out.rows, "backlog_orders", 1) = Cardinality(InBacklog(enr))
    /\ SumField(agg.out.rows, "backlog_value", 1) = AmountOf(enr, InBacklog(enr), 1)

\* C21, amended: in_progress_backlog returns one row per non-null
\* order_month of the orders in progress, in chronological order; the
\* backlog_orders add up to the number of orders in progress that have an
\* order_month and the backlog_value to their total_amount; other orders,
\* and orders in progress without an order_month, are in no row.
C21_Backlog ==
  (agg.op = "in_progress_backlog" /\ agg.err = NoError) =>
    LET dated == {i \in InBacklog(enr) : ~IsNa(enr.rows[i]["order_month"])}
    IN /\ BacklogRowsRight(enr, InBacklog(enr), agg.out.rows)
       /\ SumField(agg.out.rows, "backlog_orders", 1) = Cardinality(dated)
       /\ SumField(agg.out.rows, "backlog_value", 1) = AmountOf(enr, dated, 1)

\* C21 witness: the backlog has a row for month 1 and then one for month 2
\* although the order of month 2 comes first in the input, one order in
\* progress is written in capitals, and a delivered order is in no row.
C21_Witness ==
  /\ agg.op = "in_progress_backlog"
  /\ agg.err = NoError
  /\ Len(agg.out.rows) = 2
  /\ Len(enr.rows) = 3
  /\ enr.rows[1]["order_month"] = Month(2)
  /\ enr.rows[1]["status"] = Pending
  /\ enr.rows[2]["status"] = Status(5, 1)
  /\ enr.rows[2]["order_month"] = Month(1)
  /\ enr.rows[3]["status"] = Delivered
  /\ SumField(agg.out.rows, "backlog_value", 1) = 30

\* ============================== derived columns (SpecDerived)
\* The cell is the boolean b.
Is(c, b) == c = [k |-> "bool", v |-> IF b THEN 1 ELSE 0]

\* The cell is a number for which test holds.
NumberWith(c, test(_)) == c.k = "num" /\ test(c.v)

\* C22: in the enriched reviews is_positive is true exactly for a rating
\* of 4 or more and is_negative exactly for a rating of 2 or less, never
\* both; comment_length is the number of characters of the comment, and 0
\* for a null comment.
C22_ReviewFlags ==
  (entity = "reviews" /\ pc = "enriched") =>
    \A i \in RowIdx(df) :
      LET r == df.rows[i]
      IN /\ Is(r["is_positive"], NumberWith(r["rating"], LAMBDA n : n >= 4))
         /\ Is(r["is_negative"], NumberWith(r["rating"], LAMBDA n : n <= 2))
         /\ ~(Is(r["is_positive"], TRUE) /\ Is(r["is_negative"], TRUE))
         /\ r["comment_length"].k = "num"
         /\ r["comment_length"].v = (IF r["comment"].k = "txt" THEN r["comment"].v ELSE 0)

\* C22 witness: the enriched reviews hold a review of rating 4 with a null
\* comment and a review of rating 2 with a comment of five characters.
C22_Witness ==
  /\ entity = "reviews"
  /\ pc = "enriched"
  /\ Len(df.rows) = 2
  /\ df.rows[1]["rating"] = Num(4)
  /\ df.rows[1]["comment"] = Null
  /\ df.rows[1]["is_positive"] = Bool(TRUE)
  /\ df.rows[1]["comment_length"] = Num(0)
  /\ df.rows[2]["rating"] = Num(2)
  /\ df.rows[2]["is_negative"] = Bool(TRUE)
  /\ df.rows[2]["comment_length"] = Num(5)

\* C23: in the enriched orders used_promotion is true exactly when
\* promotion_id is not null, is_free_shipping exactly when shipping_cost is
\* zero or null, and is_high_discount exactly when discount_percent is 20
\* or more (a null discount is not high).
C23_OrderFlags ==
  (entity = "orders" /\ pc = "enriched") =>
    \A i \in RowIdx(df) :
      LET r == df.rows[i]
      IN /\ Is(r["used_promotion"], r["promotion_id"].k # "null")
         /\ Is(r["is_free_shipping"],
               r["shipping_cost"].k = "null" \/ r["shipping_cost"] = Num(0))
         /\ Is(r["is_high_discount"],
               NumberWith(r["discount_percent"], LAMBDA n : n >= 20))

\* C23 witness: the enriched orders hold an order with a discount of
\* exactly 20, no promotion and a null shipping cost, and an order with a
\* discount of 19, a promotion and a shipping cost of 5.
C23_Witness ==
  /\ entity = "orders"
  /\ pc = "enriched"
  /\ Len(df.rows) = 2
  /\ df.rows[1]["discount_percent"] = Num(20)
  /\ df.rows[1]["is_high_discount"] = Bool(TRUE)
  /\ df.rows[1]["promotion_id"] = Null
  /\ df.rows[1]["used_promotion"] = Bool(FALSE)
  /\ df.rows[1]["shipping_cost"] = Null
  /\ df.rows[1]["is_free_shipping"] = Bool(TRUE)
  /\ df.rows[2]["discount_percent"] = Num(19)
  /\ df.rows[2]["is_high_discount"] = Bool(FALSE)
  /\ df.rows[2]["used_promotion"] = Bool(TRUE)
  /\ df.rows[2]["is_free_shipping"] = Bool(FALSE)

\* The columns of catalog n, other than the join key, that the enricher of
\* entity e reads.
ColumnsReadFrom(e, n) ==
  CASE e = "orders" /\ n = "customers" ->
         {"segment", "registration_date", "city", "country", "email"}
    [] e = "orders" /\ n = "promotions" ->
         {"promotion_type", "discount_value", "start_date", "end_date", "is_active"}
    [] e = "reviews" /\ n = "products" -> {"product_name", "category_id", "brand_id"}
    [] e = "reviews" /\ n = "customers" -> {"segment", "city", "country"}
    [] OTHER -> {}

\* C24: when a catalog passed to enrich lacks a column the enricher reads
\* from it, enrich fails with a MissingRequiredColumnsError that names
\* every column that catalog lacks, never with a generic lookup error.
C24_MissingCatalogColumnNamed ==
  (/\ caller = "test"
   /\ pc \in {"raised", "enriched"}
   /\ \E n \in CatalogsOf(entity) : ~(ColumnsReadFrom(entity, n) \subseteq cats[n].cols))
  => /\ pc = "raised"
     /\ err.type = "MissingRequiredColumnsError"
     /\ \E n \in CatalogsOf(entity) :
          /\ ~(ColumnsReadFrom(entity, n) \subseteq cats[n].cols)
          /\ (ColumnsReadFrom(entity, n) \ cats[n].cols) \subseteq err.cols

\* ================================= extractors and loaders (SpecIO)
\* C25: until extract has returned, the extractor has no data, no
\* extraction timestamp and no profile keys, and get_data and profile_data
\* raise ValueError ("No hay datos cargados"); once extract has returned,
\* get_data returns the extracted table and the timestamp is set; an
\* extract that raises changes neither the data nor the timestamp.
C25_ExtractorLifecycle ==
  /\ ext.extracted = 0 =>
       /\ ext.data = "None"
       /\ ext.timestamp = Null
       /\ ~ext.profiled
       /\ ext.last.op \in {"get_data", "profile_data"} =>
            /\ ext.last.raised = "ValueError"
            /\ ext.last.message = NoDataLoaded
  /\ ext.extracted > 0 =>
       /\ ext.data = (IF ext.mock_data # "None" THEN ext.mock_data ELSE "default")
       /\ ext.timestamp # Null
       /\ ext.last.op = "get_data" =>
            (ext.last.raised = "none" /\ ext.last.value = ext.data)
  /\ (ext.last.op = "extract" /\ ext.last.raised # "none") =>
       /\ ext.data = ext.last.data_before
       /\ ext.timestamp = ext.last.timestamp_before

\* C25 witness: after an extract that returned, a second extract raised
\* and left the data and the timestamp of the first.
C25_Witness ==
  /\ ext.extracted = 1
  /\ ext.last.op = "extract"
  /\ ext.last.raised = "ValueError"
  /\ ext.data = "sample"
  /\ ext.timestamp = Ts(1)

\* C26: constructing a ParquetLoader with a target directory that does not
\* exist raises TargetNotFoundError, as the CSV loader does, and no loader
\* is created.
C26_ParquetTargetNotFound ==
  (ldr.kind = "parquet" /\ ~ldr.target_existed) =>
    (ldr.raised = "TargetNotFoundError" /\ ~ldr.created)

\* ================================== nulls after clean (Spec)
\* The columns handle_nulls fills with zero.
ZeroFilledColumns(e) ==
  IF e = "inventory" THEN {"quantity", "min_stock_level", "max_stock_level"}
  ELSE {"helpful_votes"}

\* The columns handle_nulls validates or fills.
NullHandledColumns(e) == NullIntolerantColumns(e) \cup ZeroFilledColumns(e)

NoNullWhereHandled ==
  \A c \in NullHandledColumns(entity) \cap df.cols : ~HasNull(df, c)

\* C27 as stated: whenever clean returns a table, the columns handle_nulls
\* validated or filled hold no null, whatever the input.
C27_Original == pc = "returned" => NoNullWhereHandled

\* C27, amended: whenever clean returns a table for an input in which
\* every value of those columns is null or parses as a number or a date,
\* the columns handle_nulls validated or filled hold no null.
C27_NoNullWhereHandled ==
  (/\ pc = "returned"
   /\ \A c \in NullHandledColumns(entity) \cap Arg.cols :
        \A i \in RowIdx(Arg) : Arg.rows[i][c].k # "bad")
  => NoNullWhereHandled

\* C27 witness: clean returned a table in which the null quantity of the
\* input is zero.
C27_Witness ==
  /\ pc = "returned"
  /\ calls = 1
  /\ entity = "inventory"
  /\ \E i \in RowIdx(raw) : raw.rows[i]["quantity"] = Null
  /\ \A i \in RowIdx(df) : df.rows[i]["quantity"] \in {Num(0), Num(5)}
  /\ \E i \in RowIdx(df) : df.rows[i]["quantity"] = Num(0)

\* ============================ rates and funnel (SpecAggregate)
\* The rate is the share the funnel rows out report for the status word:
\* the two fractions are equal; without a row for word the rate is 0.
RateIsShare(rate, out, word) ==
  /\ rate.k = "ratio"
  /\ IF \E i \in DOMAIN out : out[i]["status"] = word
     THEN \A i \in DOMAIN out :
            out[i]["status"] = word =>
              rate.v[1] * out[i]["share"].v[2] = out[i]["share"].v[1] * rate.v[2]
     ELSE rate.v[1] = 0

\* The status the rate last computed is about.
RateStatus == IF agg.op = "cancellation_rate" THEN Cancelled ELSE Delivered

\* A rate was computed on a non-empty table.
RateComputed ==
  /\ agg.op \in {"cancellation_rate", "delivery_rate"}
  /\ agg.err = NoError
  /\ enr.rows # <<>>

\* C28 as stated: on every non-empty table cancellation_rate and
\* delivery_rate equal the shares status_funnel reports for cancelled and
\* delivered.
C28_Original ==
  RateComputed =>
    \A f \in StatusFunnel(enr) : RateIsShare(agg.out, f.df.rows, RateStatus)

\* C28, amended: on a non-empty table without a null status, in which
\* every cancelled or delivered status is written in lower case,
\* cancellation_rate and delivery_rate equal the shares status_funnel
\* reports for cancelled and delivered (0 when it has no such row).
C28_RatesMatchFunnel ==
  (/\ RateComputed
   /\ \A i \in RowIdx(enr) :
        /\ ~IsNa(enr.rows[i]["status"])
        /\ StrLower(enr.rows[i]["status"]) \in {Cancelled, Delivered} =>
             enr.rows[i]["status"] \in {Cancelled, Delivered})
  => \A f \in StatusFunnel(enr) : RateIsShare(agg.out, f.df.rows, RateStatus)

\* C28 witness: delivery_rate returned one third for a delivered, a
\* cancelled and a pending order.
C28_Witness ==
  /\ agg.op = "delivery_rate"
  /\ agg.err = NoError
  /\ Len(enr.rows) = 3
  /\ {enr.rows[i]["status"] : i \in RowIdx(enr)} = {Delivered, Cancelled, Pending}
  /\ agg.out = Ratio(1, 3)

\* ==================================== items_count (SpecEnrich)
\* C29: in the enriched orders items_count is the sum of the quantities of
\* the order's rows in order_items, and 0, not null, for an order that has
\* no row in order_items.
C29_ItemsCount ==
  (pc = "enriched" /\ entity = "orders") =>
    \A m \in RowIdx(df) :
      df.rows[m]["items_count"] =
        Num(SumQuantity(cats.order_items.rows, df.rows[m]["order_id"], 1))

\* ================================= optional columns (Spec)
\* The table has every required column of the entity, and valid values:
\* no null, nothing unparseable, nothing negative, ratings from 1 to 5 and
\* no key twice.
RequiredAndValid(e, t) ==
  /\ (IF e = "inventory" THEN InventoryRequiredColumns ELSE ReviewsRequiredColumns)
       \subseteq t.cols
  /\ \A i \in RowIdx(t) : \A c \in t.cols :
       /\ t.rows[i][c].k \notin {"null", "bad"}
       /\ ~IsNegative(t.rows[i][c])
       /\ c = "rating" => t.rows[i][c].v \in 1..5
  /\ \A i, j \in RowIdx(t) :
       i # j => t.rows[i][KeyColumn(e)] # t.rows[j][KeyColumn(e)]

\* C30: clean returns for every table that has the required columns of
\* its entity with valid values, whether or not an optional column is
\* present.
C30_OptionalColumnsOptional ==
  (calls = 1 /\ Finished /\ RequiredAndValid(entity, raw)) => pc = "returned"

====
